---- MODULE Spec2Model ----
(***************************************************************************)
(* Dark-Singularity decision engine (src/src/core): the Singularity        *)
(* engine, its wave substrate (MWSO), nodes, regulator (Horizon),          *)
(* knowledge rules (Bootstrapper) and the DSYM snapshot format.            *)
(*                                                                         *)
(* Numbers.  f32 quantities with simple arithmetic (temperature, fatigue,  *)
(* momentum, penalty, gravity, node states, rule strengths, rewards) are   *)
(* fixed-point integers in units of 1/Milli.  The wave arrays psi_real,    *)
(* psi_imag and theta are built with sin/cos/exp; the model keeps for each *)
(* bin a stamp: 0 is the float +0.0, 1..WaveMod is "some nonzero float",   *)
(* and every write of the code moves the stamp to the next nonzero one.    *)
(* Which bins an operation writes is modelled exactly.                     *)
(***************************************************************************)
EXTENDS Integers, Sequences, FiniteSets, TLC

VARIABLES
    eng,      \* the Singularity instance (a record of its fields)
    disk,     \* the snapshot file at the path used by save/load, or NoFile
    saved,    \* the engine as it was when the file on disk was written
    op,       \* the last call made: its name, arguments and outcome, and the
              \* name of the call before it
    calls,    \* number of engine calls made on this instance
    engines,  \* number of instances constructed so far
    pushed,   \* every Experience pushed to history since it was last cleared
    inputs,   \* every state index pushed to input_history on this instance
    credit,   \* pairs <<Experience id, learn call>>: that learn adapted it
    before    \* the instance as it was when the last call was made

vars == <<eng, disk, saved, op, calls, engines, pushed, inputs, credit, before>>

----------------------------------------------------------------------------
(* Bounds of the model *)

\* engine calls explored per instance in Spec
MaxCalls == 3
\* instances constructed per behaviour in SpecPersist
MaxEngines == 2
\* engine calls made before the first save in SpecPersist
MaxWarmup == 2
\* engine calls per instance in SpecHistory
MaxRun == 18
\* calls of a SpecHistory run that may be observe_expert calls
MaxObserved == 4
\* number of nonzero stamps of a wave bin
WaveMod == 2
\* engine calls per instance in SpecGuided
MaxGuided == 4

(* Program constants *)

\* fixed-point unit: three decimal digits
Milli == 10 * 10 * 10
\* Singularity::new: required_dim = (total * 64).next_power_of_two().max(512)
BinsPerActionUnit == 64
MinDim == 512
\* select_actions / observe_expert: input_history.len() > 4 => pop_front
InputHistoryCap == 4
\* Singularity::new: max_history: 15
MaxHistory == 15
\* inject_state: for i in 0..16
InjectSpread == 16
\* save_to_file: version word
SnapshotVersion == 12
\* b"DSYM" read as a little-endian u32
MagicU32 == 1297699652
\* the bit pattern of a nonzero finite f32 read as u32 is at least 2^23
HugeU32 == 2 ^ 23

----------------------------------------------------------------------------
(* Arithmetic helpers *)

Min2(a, b) == IF a < b THEN a ELSE b
Max2(a, b) == IF a > b THEN a ELSE b
Clamp(x, lo, hi) == Max2(lo, Min2(x, hi))
Abs(x) == IF x < 0 THEN -x ELSE x
\* product of two fixed-point values
MulM(a, b) == (a * b) \div Milli

RECURSIVE SeqSum(_)
SeqSum(s) == IF s = <<>> THEN 0 ELSE Head(s) + SeqSum(Tail(s))

RECURSIVE NextPow2From(_, _)
NextPow2From(p, n) == IF p >= n THEN p ELSE NextPow2From(2 * p, n)
\* usize::next_power_of_two
next_power_of_two(n) == NextPow2From(1, n)

\* Vec<f32> of length n holding v, indexed from 0
VecOf(n, v) == [i \in 0 .. n - 1 |-> v]
VecLen(f) == Cardinality(DOMAIN f)

\* a write of a freshly computed float into a wave bin
Touch(v) == (v % WaveMod) + 1
\* k successive writes
RECURSIVE TouchN(_, _)
TouchN(v, k) == IF k = 0 THEN v ELSE TouchN(Touch(v), k - 1)
\* v *= factor: +0.0 stays +0.0
Scaled(v) == IF v = 0 THEN 0 ELSE Touch(v)

----------------------------------------------------------------------------
(* MWSO (src/src/core/mwso.rs) *)

\* MWSO::new.  psi_real = 0.01, psi_imag = 0.0, theta[i] = sin(0.1 i) * 0.1
\* (zero only at i = 0), gravity_field = 0.0.  normalized is not a field of
\* the code: it tells whether the last write of psi was that of normalize.
MWSO_new(dim) ==
    [ dim           |-> dim,
      psi_real      |-> VecOf(dim, 1),
      psi_imag      |-> VecOf(dim, 0),
      theta         |-> [i \in 0 .. 2 * dim - 1 |-> IF i = 0 THEN 0 ELSE 1],
      gravity_field |-> VecOf(dim, 0),
      normalized    |-> FALSE ]

primes == <<31, 37, 41, 43, 47, 53, 59, 61, 67, 71>>

\* the bins inject_state writes, one per i in 0..16 (as a sequence, i+1 -> bin)
InjectBins(state_idx, dim) ==
    LET stride == primes[(state_idx % Len(primes)) + 1]
    IN  [i \in 1 .. InjectSpread |-> (state_idx + (i - 1) * stride) % dim]

HitCount(bins, b) == Cardinality({i \in DOMAIN bins : bins[i] = b})

\* inject_state: an index >= dim is skipped; a zero strength adds 0.0
inject_state(m, state_idx, strength) ==
    IF state_idx >= m.dim \/ strength = 0 THEN m
    ELSE LET bins == InjectBins(state_idx, m.dim)
             hit  == {bins[i] : i \in DOMAIN bins}
         IN  [m EXCEPT
               !.psi_real = [b \in 0 .. m.dim - 1 |->
                   IF b \in hit THEN TouchN(m.psi_real[b], HitCount(bins, b))
                   ELSE m.psi_real[b]],
               !.psi_imag = [b \in 0 .. m.dim - 1 |->
                   IF b \in hit THEN TouchN(m.psi_imag[b], HitCount(bins, b))
                   ELSE m.psi_imag[b]],
               !.normalized = FALSE]

\* inject_exploration_noise: psi_real[i] += noise * strength for every bin
inject_exploration_noise(m) ==
    [m EXCEPT !.psi_real = [b \in 0 .. m.dim - 1 |-> Touch(m.psi_real[b])],
              !.normalized = m.dim = 0 /\ @]

\* step_core: theta *= solidification (both halves), every psi bin rewritten,
\* then normalize
step_core(m) ==
    [m EXCEPT
      !.theta    = [i \in 0 .. 2 * m.dim - 1 |-> Scaled(m.theta[i])],
      !.psi_real = [b \in 0 .. m.dim - 1 |-> Touch(m.psi_real[b])],
      !.psi_imag = [b \in 0 .. m.dim - 1 |-> Touch(m.psi_imag[b])],
      !.normalized = TRUE]

\* whether bin b is one of (action_idx * bin_per_action + j) % dim, j in
\* 0..bin_per_action, the bins adapt / align_to_action address for an action
InActionBins(b, action_idx, dim, action_size) ==
    LET bpa == dim \div action_size
    IN  ((b - action_idx * bpa) % dim) < bpa

ActionBins(action_idx, dim, action_size) ==
    {b \in 0 .. dim - 1 : InActionBins(b, action_idx, dim, action_size)}

\* adapt, the body of `for &action_idx in last_actions` for one action
adapt_one(m, reward, action_idx, action_size) ==
    LET own(b) == InActionBins(b, action_idx, m.dim, action_size)
        g1  == IF reward > 2 * Milli
               THEN [b \in 0 .. m.dim - 1 |->
                       IF own(b) THEN Min2(m.gravity_field[b] + 100, Milli)
                       ELSE m.gravity_field[b]]
               ELSE m.gravity_field
        g2  == IF reward < 0
               THEN [b \in 0 .. m.dim - 1 |->
                       IF own(b) THEN (g1[b] * 8) \div 10 ELSE g1[b]]
               ELSE g1
        \* neighborhood in -1..=1, target_action = rem_euclid(action_size)
        nb(b, n) == InActionBins(b, (action_idx + n) % action_size, m.dim,
                                 action_size)
        cnt(b) == (IF nb(b, -1) THEN 1 ELSE 0) + (IF nb(b, 0) THEN 1 ELSE 0)
                  + (IF nb(b, 1) THEN 1 ELSE 0)
        tlen == 2 * m.dim
    IN  [m EXCEPT
          !.gravity_field = g2,
          !.theta = [i \in 0 .. tlen - 1 |->
              IF i < m.dim
              THEN TouchN(m.theta[i], cnt(i))
              \* theta[(idx + dim) % t_len] = 1.0
              ELSE IF reward > 0 /\ cnt(i - m.dim) > 0 THEN Touch(m.theta[i])
                   ELSE m.theta[i]],
          !.psi_real = [b \in 0 .. m.dim - 1 |->
              IF reward > 0 THEN TouchN(m.psi_real[b], cnt(b)) ELSE m.psi_real[b]],
          !.psi_imag = [b \in 0 .. m.dim - 1 |->
              IF reward > 0 THEN TouchN(m.psi_imag[b], cnt(b)) ELSE m.psi_imag[b]],
          !.normalized = @ /\ ~(reward > 0 /\ \E b \in 0 .. m.dim - 1 : cnt(b) > 0)]

RECURSIVE adapt_each(_, _, _, _)
adapt_each(m, reward, actions, action_size) ==
    IF actions = <<>> THEN m
    ELSE adapt_each(adapt_one(m, reward, Head(actions), action_size),
                    reward, Tail(actions), action_size)

\* adapt: every action in turn, then gravity_field *= 0.999
adapt(m, reward, last_actions, action_size) ==
    LET m1 == adapt_each(m, reward, last_actions, action_size)
    IN  [m1 EXCEPT !.gravity_field =
            [b \in 0 .. m.dim - 1 |-> (m1.gravity_field[b] * 999) \div 1000]]

\* align_to_action
align_to_action(m, action_idx, strength, action_size) ==
    LET own(b) == InActionBins(b, action_idx, m.dim, action_size)
    IN  [m EXCEPT
          !.theta = [i \in 0 .. 2 * m.dim - 1 |->
              IF i < m.dim /\ own(i) THEN Touch(m.theta[i]) ELSE m.theta[i]],
          !.psi_real = [b \in 0 .. m.dim - 1 |->
              IF own(b) /\ strength # 0 THEN Touch(m.psi_real[b])
              ELSE m.psi_real[b]],
          !.gravity_field = [b \in 0 .. m.dim - 1 |->
              IF own(b)
              THEN Min2(m.gravity_field[b] + strength \div 100, 500)
              ELSE m.gravity_field[b]],
          !.normalized = @ /\ ~(strength # 0 /\ \E b \in 0 .. m.dim - 1 : own(b))]

----------------------------------------------------------------------------
(* Node (src/src/core/node.rs) *)

\* Node::new
Node_new(initial_decay) ==
    [state |-> 0, base_decay |-> initial_decay, synapses |-> <<>>]

RECURSIVE SynapticSum(_, _)
SynapticSum(synapses, node_states) ==
    IF synapses = <<>> THEN 0
    ELSE LET s == Head(synapses)
         IN  (IF s.target_id + 1 \in DOMAIN node_states
              THEN MulM(node_states[s.target_id + 1], s.weight) ELSE 0)
             + SynapticSum(Tail(synapses), node_states)

\* Node::update
Node_update(n, input, urgency, system_temp, node_states) ==
    LET synaptic_input == input + SynapticSum(n.synapses, node_states)
                                + n.state \div 10
        thermal_effect == Max2(MulM(system_temp, 400), 0)
        alpha == Clamp(n.base_decay + MulM(urgency, Milli - n.base_decay)
                       + thermal_effect, 10, Milli)
    IN  [n EXCEPT !.state =
            Clamp(n.state + MulM(alpha, synaptic_input - n.state), 0, Milli)]

\* f32::NAN: a value apart from every number of the model; every ordering
\* test on it is false, as in IEEE 754
NaN == 0 - 2000 * Milli * Milli

\* f32::clamp: NaN if self is NaN
clamp_f32(x, lo, hi) == IF x = NaN THEN NaN ELSE Clamp(x, lo, hi)

\* Node::apply_inhibition (dampening_factor in 1/Milli)
apply_inhibition(n, dampening_factor) ==
    [n EXCEPT !.state = Max2(n.state - MulM(n.state, dampening_factor), 0)]

----------------------------------------------------------------------------
(* Horizon (src/src/core/horizon.rs) *)

homeostatic_threshold == 1800

\* a scaling that reaches every node
overactive_any(state) == TRUE

\* Horizon::regulate, `if nodes[i].state > 0.5`
overactive(state) == state > 500

\* Horizon::regulate over all nodes; yields the new buffer and nodes
regulate(buffer, system_temp, nodes) ==
    LET total_activity == SeqSum([i \in DOMAIN nodes |-> nodes[i].state])
        buf == ((buffer + total_activity \div 10) * 92) \div 100
        fire == system_temp > Milli
                /\ (total_activity > homeostatic_threshold \/ buf > 2 * Milli)
    IN  [ glutamate_buffer |-> buf,
          nodes |-> [i \in DOMAIN nodes |->
                        IF fire /\ overactive(nodes[i].state)
                        THEN apply_inhibition(nodes[i], 150) ELSE nodes[i]] ]

\* Horizon::get_intervention_level
get_intervention_level(buffer) == Min2(buffer \div 3, Milli)

----------------------------------------------------------------------------
(* Bootstrapper (src/src/core/knowledge.rs) *)

\* Option<f32>: None is the empty sequence, Some(x) the sequence <<x>>
NoneF == <<>>
Some(x) == <<x>>
unwrap_or(o, d) == IF o = NoneF THEN d ELSE o[1]

\* a field that starts with Some(0.0) for every action
everywhere_zero(action_size) == [a \in 0 .. action_size - 1 |-> Some(0)]

\* calculate_resonance_field: a field with None for every action
everywhere_none(action_size) == [a \in 0 .. action_size - 1 |-> NoneF]

\* calculate_resonance_field, the loop `for rule in &self.rules`
RECURSIVE resonance_fold(_, _, _, _)
resonance_fold(field, rules, active_conditions, action_size) ==
    IF rules = <<>> THEN field
    ELSE LET rule == Head(rules)
             hit  == /\ rule.condition_id \in active_conditions
                     /\ rule.target_action < action_size
         IN  resonance_fold(
                IF hit
                THEN [field EXCEPT ![rule.target_action] =
                         Some(unwrap_or(@, 0) + rule.strength)]
                ELSE field,
                Tail(rules), active_conditions, action_size)

\* Bootstrapper::calculate_resonance_field: per action None or Some(sum)
calculate_resonance_field(rules, active_conditions, action_size) ==
    resonance_fold(everywhere_none(action_size), rules, active_conditions,
                   action_size)

\* Bootstrapper::add_hamiltonian_rule
add_hamiltonian_rule(rules, condition_id, target_action, strength) ==
    Append(rules, [condition_id |-> condition_id,
                   target_action |-> target_action,
                   strength |-> strength])

----------------------------------------------------------------------------
(* Singularity (src/src/core/singularity.rs) *)

idx_aggression == 0
idx_fear == 1
idx_tactical == 2
idx_reflex == 3

\* Singularity::new
Singularity_new(state_size, category_sizes) ==
    LET total_action_size == SeqSum(category_sizes)
        required_dim == Max2(next_power_of_two(total_action_size * BinsPerActionUnit),
                             MinDim)
    IN  [ nodes |-> <<Node_new(500), Node_new(400), Node_new(300), Node_new(300)>>,
          glutamate_buffer |-> 0,
          mwso |-> MWSO_new(required_dim),
          rules |-> <<>>,
          active_conditions |-> {},
          system_temperature |-> 500,
          last_topology_update_temp |-> -1000,
          adrenaline |-> 0,
          frustration |-> 0,
          velocity_trust |-> 1000,
          fatigue_map |-> VecOf(total_action_size, 0),
          morale |-> 1000,
          patience |-> 1000,
          category_sizes |-> category_sizes,
          action_size |-> total_action_size,
          state_size |-> state_size,
          last_actions |-> [k \in 1 .. Len(category_sizes) |-> 0],
          last_state_idx |-> 0,
          action_momentum |-> VecOf(total_action_size, 0),
          input_history |-> <<>>,
          history |-> <<>>,
          max_history |-> MaxHistory,
          learned_rules |-> <<>>,
          penalty_matrix |-> VecOf(state_size * required_dim, 0),
          exploration_beta |-> 100 ]

\* the outcome of a call: the engine it leaves, how it ended, what it returned
Ok(e, ret) == [e |-> e, out |-> "ok", ret |-> ret]
Err(e, kind) == [e |-> e, out |-> "err", ret |-> kind]
Panic(e) == [e |-> e, out |-> "panic", ret |-> <<>>]

\* a push that drops the new entry once the queue is full
PushKeepingOldest(q, x, cap) == IF Len(q) >= cap THEN q ELSE Append(q, x)

\* VecDeque push_back followed by pop_front when longer than cap
PushCapped(q, x, cap) ==
    LET q1 == Append(q, x) IN IF Len(q1) > cap THEN Tail(q1) ELSE q1

\* sum of the sizes of the categories before the k-th (k from 1)
Offset(category_sizes, k) == SeqSum(SubSeq(category_sizes, 1, k - 1))

\* select_actions, `decay *= 0.5`
next_decay(decay) == decay \div 2

\* select_actions, the loop over input_history.iter().rev(): the pairs
\* <<prev_idx, decay>> passed to inject_state; decay *= 0.5, stop once
\* decay < 0.1
RECURSIVE flow_trail(_, _)
flow_trail(prev_rev, decay) ==
    IF prev_rev = <<>> THEN <<>>
    ELSE <<<<Head(prev_rev), decay>>>> \o
         (IF next_decay(decay) < 100 THEN <<>>
          ELSE flow_trail(Tail(prev_rev), next_decay(decay)))

\* the inject_state calls of a trail, in order
RECURSIVE inject_flow(_, _)
inject_flow(m, trail) ==
    IF trail = <<>> THEN m
    ELSE inject_flow(inject_state(m, Head(trail)[1], Head(trail)[2]),
                     Tail(trail))

Reverse(q) == [i \in 1 .. Len(q) |-> q[Len(q) + 1 - i]]

\* select_actions, the inject_state calls in order: the current state at
\* 1.0, then the trail over input_history as it was before the push
injections(e, state_idx) ==
    <<<<state_idx, Milli>>>> \o flow_trail(Reverse(e.input_history), 400)

\* select_actions: the penalty row of the state plus the knowledge penalties,
\* |strength| * 50 on the bins action * (dim / action_size) .. of every action
\* whose resonance is negative
current_penalty_field(e, state_idx) ==
    LET dim   == e.mwso.dim
        start == state_idx * dim
        bin_per_action == dim \div e.action_size
        resonance == calculate_resonance_field(e.rules, e.active_conditions,
                                               e.action_size)
        p_val(b) == LET a == b \div bin_per_action
                    IN  IF a < e.action_size /\ unwrap_or(resonance[a], 0) < 0
                        THEN (0 - resonance[a][1]) * 50
                        ELSE 0
    IN  [b \in 0 .. dim - 1 |-> e.penalty_matrix[start + b] + p_val(b)]

\* sum of f[(center + j) % dim] for j in lo .. hi
RECURSIVE SumBins(_, _, _, _, _)
SumBins(f, center, dim, lo, hi) ==
    IF lo > hi THEN 0
    ELSE IF lo = hi THEN f[(center + lo) % dim]
    ELSE LET mid == (lo + hi) \div 2
         IN  SumBins(f, center, dim, lo, mid)
                + SumBins(f, center, dim, mid + 1, hi)

\* the least k with k * k >= n
SqrtUp(n) == CHOOSE k \in 0 .. n : k * k >= n /\ \A j \in 0 .. k - 1 : j * j < n

\* score.min(1e10) overflows the model's integers; any score above the
\* exclusion magnitude 1e6 behaves alike
HugeScore == 2000 * Milli * Milli

\* MWSO::get_action_scores: the bins read for the i-th action of a category,
\* (center_idx + j) % dim with center_idx = (offset + i * (dim / size)) % dim
score_bins(dim, offset, size, i) ==
    LET bin_per_action == dim \div size
        center_idx == (offset + i * bin_per_action) % dim
    IN  {(center_idx + j) % dim : j \in 0 .. bin_per_action - 1}

\* MWSO::get_action_scores for one action: exp(1.5 * (sum - 0.5 *
\* total_penalty)).min(1e10) over the bins center .. center + dim / size.
\* The sum is a float the model does not compute; the norm of psi is at
\* most 2.5 after step_core, so the sum is at most 2.5 * sqrt(bins) and a
\* penalty 20 above that leaves a score below 0.001.  Otherwise the score is
\* one of three levels.  The exploration noise is added by the caller.
wave_scores(e, penalty_field, offset, size, i) ==
    LET dim == e.mwso.dim
        bin_per_action == dim \div size
        center == (offset + i * bin_per_action) % dim
        total_penalty == SumBins(penalty_field, center, dim, 0,
                                 bin_per_action - 1)
    IN  IF total_penalty \div 2
             >= ((5 * SqrtUp(bin_per_action)) \div 2 + 20) * Milli
        THEN {0}
        ELSE {0, Milli, HugeScore}

\* get_best_in_range: total_score of index i without the wave score
score_bias(e, offset, i) ==
    LET action_idx == offset + i
        r == calculate_resonance_field(e.rules, e.active_conditions,
                                       e.action_size)[action_idx]
        knowledge_resonance ==
            IF r = NoneF THEN 0
            ELSE IF r[1] < -900 THEN 0 - 1000 * Milli * Milli
            ELSE r[1] * 30
        at == {k \in DOMAIN e.rules :
                  /\ e.rules[k].condition_id = e.last_state_idx
                  /\ e.rules[k].target_action = action_idx}
        state_rule == IF at = {} THEN 0
                      ELSE e.rules[CHOOSE k \in at : \A j \in at : k <= j]
                               .strength * 20
        lr == {k \in DOMAIN e.learned_rules :
                  /\ e.learned_rules[k][1] = e.last_state_idx
                  /\ e.learned_rules[k][2] = action_idx}
        internal_field ==
            IF lr = {} THEN 0
            ELSE Min2(e.learned_rules[CHOOSE k \in lr : \A j \in lr : k <= j][3]
                          * 2 * Milli, 5 * Milli)
        neuron_boost ==
            IF i = 0 THEN (e.nodes[idx_aggression + 1].state * 4) \div 10
            ELSE IF i = 1 THEN (e.nodes[idx_fear + 1].state * 2) \div 10
            ELSE 0
    IN  knowledge_resonance + state_rule
          - e.fatigue_map[action_idx] \div 2
          + internal_field + neuron_boost
          + (e.action_momentum[action_idx] * 3) \div 2
          + e.morale \div 10

\* get_best_in_range: (total_score + 10.0).max(0.1); powf(sharp_factor) is
\* increasing and the sin tie-break is below every level step
collapsed_score(total_score) == Max2(total_score + 10 * Milli, 100)

\* get_best_in_range: noise = 0.2 if active_conditions is empty, else 0.0
score_noise(e) == IF e.active_conditions = {} THEN 200 ELSE 0

\* get_action_scores: ((seed + i) % 1000 / 1000 - 0.5) * exploration_noise
\* with seed the wall clock in nanoseconds, read only if exploration_noise
\* > 0: the lowest, the middle and the highest value the clock can give
jitters(exploration_noise) ==
    IF exploration_noise > 0
    THEN {0 - exploration_noise \div 2, 0,
          MulM(499, exploration_noise)}
    ELSE {0}

\* get_best_in_range: the indices the argmax over collapsed_score can return:
\* those whose highest possible score reaches the lowest possible score of
\* every other index
get_best_in_range(e, offset, size) ==
    LET penalty_field == current_penalty_field(e, e.last_state_idx)
        scores(i) == {collapsed_score(w + n + score_bias(e, offset, i)) :
                         w \in wave_scores(e, penalty_field, offset, size, i),
                         n \in jitters(score_noise(e))}
    IN  {i \in 0 .. size - 1 :
            \A j \in (0 .. size - 1) \ {i} :
                \E hi \in scores(i), lo \in scores(j) : hi >= lo}

\* an exploration noise injected whatever the conditions
noise_always(e) == TRUE

\* select_actions, `if self.active_conditions.is_empty()` before
\* inject_exploration_noise, which reads the wall clock
noise_due(e) == e.active_conditions = {}

\* select_actions.  best[k] is the index get_best_in_range returns for the
\* k-th category; id tags the pushed Experience and cond remembers the
\* conditions active when it was pushed (neither is stored by the code).
select_actions(e, state_idx, best, id) ==
    LET e0    == [e EXCEPT !.last_state_idx = state_idx]
        dim   == e.mwso.dim
        start == state_idx * dim
        cats  == e.category_sizes
    IN  \* penalty_matrix[start..start + dim]
        IF start + dim > VecLen(e.penalty_matrix) THEN Panic(e0)
        \* dim / action_size
        ELSE IF e.action_size = 0 THEN Panic(e0)
        ELSE
        LET m2 == inject_flow(e.mwso, injections(e, state_idx))
            ih == PushCapped(e.input_history, state_idx, InputHistoryCap)
            m3 == IF noise_due(e) THEN inject_exploration_noise(m2) ELSE m2
            m4 == step_core(m3)
            \* self.last_actions[cat_idx] = current_offset + best_idx
            la == [k \in 1 .. Len(e.last_actions) |->
                      IF k <= Len(cats) THEN Offset(cats, k) + best[k]
                      ELSE e.last_actions[k]]
            e1 == [e0 EXCEPT !.mwso = m4, !.input_history = ih,
                             !.last_actions = la]
            ex == [state_idx |-> state_idx, actions |-> la, id |-> id,
                   cond |-> e.active_conditions]
        IN  IF Len(cats) > Len(e.last_actions) THEN Panic(e1)
            ELSE Ok([e1 EXCEPT !.history =
                        PushCapped(e.history, ex, e.max_history)], best)

\* Singularity::update_connection
update_connection(nodes, from, to, weight) ==
    IF from + 1 \notin DOMAIN nodes THEN nodes
    ELSE LET syn == nodes[from + 1].synapses
             at  == {i \in DOMAIN syn : syn[i].target_id = to}
         IN  [nodes EXCEPT ![from + 1].synapses =
                IF at = {}
                THEN Append(syn, [target_id |-> to, weight |-> weight])
                ELSE LET first == CHOOSE i \in at : \A j \in at : i <= j
                     IN  [syn EXCEPT ![first].weight = weight]]

\* Singularity::apply_elastic_fatigue: one halving per fatigued index
apply_elastic_fatigue(nodes, fatigue_map) ==
    LET tired == {idx \in DOMAIN fatigue_map : fatigue_map[idx] > 800}
        Halve(w, k) == IF k = 0 THEN w ELSE w \div 2
    IN  [n \in DOMAIN nodes |->
            [nodes[n] EXCEPT !.synapses =
                [i \in DOMAIN nodes[n].synapses |->
                    [nodes[n].synapses[i] EXCEPT !.weight =
                        Halve(@, IF nodes[n].synapses[i].target_id \in tired
                                 THEN 1 ELSE 0)]]]]

\* Singularity::reshape_topology
reshape_topology(e) ==
    LET temp == e.system_temperature
        arousal == Clamp(e.nodes[idx_aggression + 1].state + e.adrenaline,
                         0, 2 * Milli)
        tactical_focus == e.nodes[idx_tactical + 1].state
        n1 == update_connection(e.nodes, idx_tactical, idx_reflex,
                  MulM(Clamp(Milli - temp, 0, Milli), Milli + tactical_focus))
        n2 == update_connection(n1, idx_aggression, idx_reflex,
                  (arousal * 3) \div 2)
        n3 == update_connection(n2, idx_fear, idx_reflex,
                  e.nodes[idx_fear + 1].state * 2)
        n4 == IF temp > 1500 /\ get_intervention_level(e.glutamate_buffer) > 700
              THEN [n3 EXCEPT
                      ![idx_aggression + 1] = apply_inhibition(@, 300),
                      ![idx_fear + 1] = apply_inhibition(@, 200)]
              ELSE n3
    IN  [e EXCEPT !.last_topology_update_temp = temp,
                  !.nodes = apply_elastic_fatigue(n4, e.fatigue_map)]

\* a temperature update whose heating branch has no cap
heating_uncapped(e, td_error, reward) ==
    IF reward > 1500 THEN 50
    ELSE IF reward > 0
    THEN LET cooling == IF e.active_conditions = {} THEN 800 ELSE 850
         IN  Max2(MulM(e.system_temperature, cooling) - reward \div 10, 50)
    ELSE e.system_temperature + td_error \div 5

\* digest_experience, the new system_temperature
next_temperature(e, td_error, reward) ==
    IF reward > 1500 THEN 50
    ELSE IF reward > 0
    THEN LET cooling == IF e.active_conditions = {} THEN 800 ELSE 850
         IN  Max2(MulM(e.system_temperature, cooling) - reward \div 10, 50)
    ELSE Min2(e.system_temperature + td_error \div 5, 2 * Milli)

\* a digest_experience that reshapes on every call
reshape_always(urgency, temp, last_topology_update_temp) == TRUE

\* digest_experience, the test that guards reshape_topology
reshape_due(urgency, temp, last_topology_update_temp) ==
    urgency > 500 \/ Abs(temp - last_topology_update_temp) > 50

\* Singularity::digest_experience
digest_experience(e, td_error, reward, penalty) ==
    LET temp == next_temperature(e, td_error, reward)
        urgency == Min2((reward + penalty) * 5, Milli)
        m1 == inject_state(e.mwso, 0, reward)
        m2 == inject_state(m1, 1, -penalty)
        m3 == step_core(m2)
        current_states == [i \in DOMAIN e.nodes |-> e.nodes[i].state]
        nodes1 == [i \in DOMAIN e.nodes |->
                      Node_update(e.nodes[i], 0, urgency, temp, current_states)]
        e1 == [e EXCEPT !.system_temperature = temp, !.mwso = m3,
                        !.nodes = nodes1]
        e2 == IF reshape_due(urgency, temp, e.last_topology_update_temp)
              THEN reshape_topology(e1) ELSE e1
        r  == regulate(e2.glutamate_buffer, temp, e2.nodes)
    IN  [e2 EXCEPT !.glutamate_buffer = r.glutamate_buffer,
                   !.nodes = r.nodes]

\* for j in 0..n { v[start + j] = f(v[start + j]) } with unchecked indexing:
\* the entries before the first out-of-range index are written, then it panics
WriteRange(v, start, n, f(_)) ==
    [ v  |-> [i \in DOMAIN v |->
                 IF start <= i /\ i < start + n THEN f(v[i]) ELSE v[i]],
      ok |-> n = 0 \/ start + n <= VecLen(v) ]

\* learn, the fatigue loop `for &idx in &exp.actions`
RECURSIVE fatigue_each(_, _, _, _)
fatigue_each(fm, actions, discounted_reward, discount) ==
    IF actions = <<>> THEN [v |-> fm, ok |-> TRUE]
    ELSE LET idx == Head(actions)
         IN  IF idx \notin DOMAIN fm THEN [v |-> fm, ok |-> FALSE]
             ELSE fatigue_each(
                    [fm EXCEPT ![idx] =
                        IF discounted_reward < 0
                        THEN Min2(@ + MulM(200, discount), Milli)
                        ELSE Max2(@ - MulM(300, discount), 0)],
                    Tail(actions), discounted_reward, discount)

\* learn, the learned_rules update for (state, action)
bump_learned_rule(learned_rules, state, action) ==
    LET at == {i \in DOMAIN learned_rules :
                  learned_rules[i][1] = state /\ learned_rules[i][2] = action}
    IN  IF at = {} THEN Append(learned_rules, <<state, action, 1>>)
        ELSE LET first == CHOOSE i \in at : \A j \in at : i <= j
             IN  [learned_rules EXCEPT ![first][3] = @ + 1]

HalveP(x) == x \div 2

\* learn, which of the learned_rules / penalty_matrix branches runs for an
\* entry: the test is on the conditions active now, during learn
rule_branch(e, discounted_reward) ==
    IF e.active_conditions # {} THEN "none"
    ELSE IF discounted_reward > 1200 THEN "reinforce"
    ELSE IF discounted_reward < 0 THEN "penalize"
    ELSE "none"

\* learn, the body of `for exp in self.history.iter().rev()` for one entry
learn_entry(e, exp, reward, discount) ==
    LET discounted_reward == MulM(reward, discount)
        bpa == e.mwso.dim \div e.action_size
        Raise(x) == Min2(x + Abs(discounted_reward) * 2, 10 * Milli)
        rule_eligible == e.active_conditions = {}
        \* e1 is the engine once self.mwso.adapt(...) has run
        credit_entry(e1) ==
            IF rule_eligible /\ exp.actions = <<>> THEN Panic(e1)
            ELSE
            LET state  == exp.state_idx
                action == exp.actions[1]
                start  == state * e.mwso.dim + action * bpa
                branch == rule_branch(e, discounted_reward)
                lr == IF branch = "reinforce"
                      THEN bump_learned_rule(e.learned_rules, state, action)
                      ELSE e.learned_rules
                pw == IF branch = "reinforce"
                      THEN WriteRange(e.penalty_matrix, start, bpa, HalveP)
                      ELSE IF branch = "penalize"
                      THEN WriteRange(e.penalty_matrix, start, bpa, Raise)
                      ELSE [v |-> e.penalty_matrix, ok |-> TRUE]
                fw == fatigue_each(e.fatigue_map, exp.actions,
                                   discounted_reward, discount)
                tail(e2) == IF ~pw.ok THEN Panic(e2)
                            ELSE IF ~fw.ok
                            THEN Panic([e2 EXCEPT !.fatigue_map = fw.v])
                            ELSE Ok([e2 EXCEPT !.fatigue_map = fw.v], <<>>)
            IN  tail([e1 EXCEPT !.learned_rules = lr, !.penalty_matrix = pw.v])
    IN  credit_entry([e EXCEPT !.mwso =
            adapt(e.mwso, discounted_reward, exp.actions, e.action_size)])

\* a discount that halves at every entry
steep_discount(discount) == discount \div 2

\* learn, `discount *= gamma` with gamma = 0.9
next_discount(discount) == (discount * 9) \div 10

\* learn, the walk over history newest to oldest; log collects the adapt calls
RECURSIVE learn_walk(_, _, _, _, _)
learn_walk(e, rev, reward, discount, log) ==
    IF rev = <<>> THEN [e |-> e, out |-> "ok", ret |-> log]
    ELSE LET lg == Append(log, [id |-> Head(rev).id,
                                state_idx |-> Head(rev).state_idx,
                                actions |-> Head(rev).actions,
                                reward |-> MulM(reward, discount),
                                discount |-> discount,
                                cond |-> Head(rev).cond,
                                rule |-> rule_branch(e, MulM(reward, discount))])
             d1 == next_discount(discount)
             \* r is the outcome of the loop body for the newest entry
             continue(r) ==
                 IF r.out # "ok" THEN [e |-> r.e, out |-> "panic", ret |-> lg]
                 ELSE IF d1 < 10 THEN [e |-> r.e, out |-> "ok", ret |-> lg]
                 ELSE learn_walk(r.e, Tail(rev), reward, d1, lg)
         IN  continue(learn_entry(e, Head(rev), reward, discount))

\* learn, the momentum boost `for &idx in &self.last_actions`
RECURSIVE momentum_each(_, _, _)
momentum_each(am, actions, reward) ==
    IF actions = <<>> THEN [v |-> am, ok |-> TRUE]
    ELSE LET idx == Head(actions)
         IN  IF idx \notin DOMAIN am THEN [v |-> am, ok |-> FALSE]
             ELSE momentum_each(
                    [am EXCEPT ![idx] = Min2(@ + reward \div 5, 2 * Milli)],
                    Tail(actions), reward)

\* learn, the momentum update on the engine e the walk left
momentum_update(e, reward) ==
    IF reward > 100
    THEN momentum_each(e.action_momentum, e.last_actions, reward)
    ELSE IF reward < -500
    THEN [v |-> [i \in DOMAIN e.action_momentum |->
                    (e.action_momentum[i] * 2) \div 10],
          ok |-> TRUE]
    ELSE [v |-> e.action_momentum, ok |-> TRUE]

\* a fatigue decay with the ratio of the momentum decay
momentum_ratio(f) == (f * 95) \div 100

\* learn, `*f *= 0.98`
fatigue_decay(f) == (f * 98) \div 100

\* decays that keep only the entries still above zero
decay_retaining(e) ==
    LET kept(v) == [i \in 0 .. Cardinality({j \in DOMAIN v : v[j] > 0}) - 1 |-> 0]
    IN  [e EXCEPT !.action_momentum = kept(@), !.penalty_matrix = kept(@),
                  !.fatigue_map = kept(@)]

\* learn, the three decays that precede digest_experience
decay_traces(e) ==
    [e EXCEPT
       !.action_momentum = [i \in DOMAIN @ |-> (@[i] * 95) \div 100],
       !.penalty_matrix  = [i \in DOMAIN @ |-> (@[i] * 995) \div 1000],
       !.fatigue_map     = [i \in DOMAIN @ |-> fatigue_decay(@[i])]]

\* a learn that leaves the history in place
keep_history(e) == e

\* the history.clear() that ends learn
clear_history(e) == [e EXCEPT !.history = <<>>]

\* Singularity::learn; ret is the log of adapt calls made
learn(e, reward) ==
    IF e.action_size = 0 THEN Panic(e)
    ELSE
    LET \* w is the outcome of the walk, mw that of the momentum update
        finish(w, mw, e1) ==
            IF ~mw.ok THEN [e |-> e1, out |-> "panic", ret |-> w.ret]
            ELSE [e |-> clear_history(
                          digest_experience(decay_traces(e1), Abs(reward),
                              reward, IF reward < 0 THEN Abs(reward) ELSE 0)),
                  out |-> "ok", ret |-> w.ret]
        boost(w, mw) == finish(w, mw, [w.e EXCEPT !.action_momentum = mw.v])
        after_walk(w) ==
            IF w.out # "ok" THEN [e |-> w.e, out |-> "panic", ret |-> w.ret]
            ELSE boost(w, momentum_update(w.e, reward))
    IN  after_walk(learn_walk(e, Reverse(e.history), reward, Milli, <<>>))

\* observe_expert, step 1: align_to_action for every expert action
RECURSIVE align_each(_, _, _, _)
align_each(m, actions, strength, action_size) ==
    IF actions = <<>> THEN m
    ELSE align_each(align_to_action(m, Head(actions), strength, action_size),
                    Tail(actions), strength, action_size)

\* a strengthening without the cap
raised_uncapped(old, strength) == old + strength \div 10

\* observe_expert: (rule.strength + 0.1 * strength).min(10.0)
raised_strength(old, strength) == Min2(old + strength \div 10, 10 * Milli)

\* observe_expert, step 2 for one action: strengthen or create the rule,
\* halve the penalty of the (state, action) bins that exist
RECURSIVE motivate_each(_, _, _, _)
motivate_each(e, state_idx, actions, strength) ==
    IF actions = <<>> THEN e
    ELSE
    LET action == Head(actions)
        at == {i \in DOMAIN e.rules :
                  /\ e.rules[i].condition_id = state_idx
                  /\ e.rules[i].target_action = action}
        rules1 == IF at = {}
                  THEN add_hamiltonian_rule(e.rules, state_idx, action,
                                            strength \div 2)
                  ELSE LET first == CHOOSE i \in at : \A j \in at : i <= j
                       IN  [e.rules EXCEPT ![first].strength =
                               raised_strength(@, strength)]
        bpa == e.mwso.dim \div e.action_size
        start == state_idx * e.mwso.dim + action * bpa
        pm == [i \in DOMAIN e.penalty_matrix |->
                  IF start <= i /\ i < start + bpa
                  THEN e.penalty_matrix[i] \div 2 ELSE e.penalty_matrix[i]]
    IN  motivate_each([e EXCEPT !.rules = rules1, !.penalty_matrix = pm],
                      state_idx, Tail(actions), strength)

\* Singularity::observe_expert
observe_expert(e, state_idx, expert_actions, strength) ==
    IF e.action_size = 0 /\ expert_actions # <<>> THEN Panic(e)
    ELSE
    LET m1 == align_each(e.mwso, expert_actions, strength, e.action_size)
        e1 == [e EXCEPT !.mwso = m1]
        e2 == IF strength > 500
              THEN motivate_each(e1, state_idx, expert_actions, strength)
              ELSE e1
    IN  Ok([e2 EXCEPT
              !.input_history = PushCapped(e.input_history, state_idx,
                                           InputHistoryCap),
              !.last_actions = expert_actions,
              !.last_state_idx = state_idx], <<>>)

\* input_signals.get(i).cloned().unwrap_or(0.0)
signal_at(input_signals, i) ==
    IF i + 1 \in DOMAIN input_signals THEN input_signals[i + 1] ELSE 0

\* Singularity::update_all_nodes
update_all_nodes(e, input_signals, urgency) ==
    LET current_states == [i \in DOMAIN e.nodes |-> e.nodes[i].state]
    IN  [e EXCEPT
          !.mwso = step_core(@),
          !.nodes = [i \in DOMAIN e.nodes |->
                        Node_update(e.nodes[i], signal_at(input_signals, i - 1),
                                    urgency, e.system_temperature,
                                    current_states)]]

\* Singularity::set_neuron_state
set_neuron_state(e, idx, state) ==
    IF idx + 1 \in DOMAIN e.nodes
    THEN [e EXCEPT !.nodes[idx + 1].state = clamp_f32(state, 0, Milli)]
    ELSE e

\* Singularity::set_active_conditions
set_active_conditions(e, conditions) == [e EXCEPT !.active_conditions = conditions]

----------------------------------------------------------------------------
(* The DSYM snapshot (save_to_file / load_from_file) *)

(* A file is its 4-byte words in order plus its length in bytes (a          *)
(* truncated file may end inside a word).  A word remembers what was        *)
(* written: a u32, an f32 in fixed point, or an f32 of a wave array.        *)
\* no file at the path (also: no engine saved yet)
NoFile == [none |-> TRUE]
U(n) == [k |-> "u32", v |-> n]
F(x) == [k |-> "f32", v |-> x]
Wv(x) == [k |-> "wave", v |-> x]

\* usize as u32: the value modulo 2^32
as_u32(x) == (x % 65536) + 65536 * ((x \div 65536) % 65536)

\* u32::from_le_bytes on a word: the bit pattern of +0.0 is 0, that of any
\* other float of the model is at least 2^23
read_u32(w) == IF w.k = "u32" THEN w.v ELSE IF w.v = 0 THEN 0 ELSE HugeU32
\* f32::from_le_bytes on a word, into a fixed-point field: a small integer
\* read as a float is a denormal, 0 at the model's resolution
read_f32(w) == IF w.k = "u32" THEN 0 ELSE w.v
\* f32::from_le_bytes on a word, into a wave array
read_wave(w) == IF w.k = "wave" THEN w.v ELSE IF w.v = 0 THEN 0 ELSE 1

VecToSeq(v) == [i \in 1 .. VecLen(v) |-> v[i - 1]]
MapSeq(q, f(_)) == [i \in 1 .. Len(q) |-> f(q[i])]

RECURSIVE Flatten(_)
Flatten(qq) == IF qq = <<>> THEN <<>> ELSE Head(qq) \o Flatten(Tail(qq))

ScalarFields == <<"system_temperature", "adrenaline", "frustration",
                  "velocity_trust", "morale", "patience", "exploration_beta",
                  "glutamate_buffer">>

\* the words save_to_file writes, in order
snapshot_words(e) ==
    LET Uc(x) == U(as_u32(x))
        node_words(n) == <<F(n.state), F(n.base_decay)>>
        rule_words(r) == <<Uc(r[1]), Uc(r[2]), Uc(r[3])>>
    IN  <<U(MagicU32), U(SnapshotVersion), Uc(e.state_size)>>
        \o [i \in 1 .. Len(ScalarFields) |-> F(e[ScalarFields[i]])]
        \o MapSeq(VecToSeq(e.fatigue_map), F)
        \o MapSeq(VecToSeq(e.action_momentum), F)
        \o MapSeq(VecToSeq(e.mwso.gravity_field), F)
        \o <<Uc(Len(e.input_history))>> \o MapSeq(e.input_history, Uc)
        \o <<Uc(Len(e.category_sizes))>> \o MapSeq(e.category_sizes, Uc)
        \o <<Uc(Len(e.nodes))>>
        \o Flatten([i \in 1 .. Len(e.nodes) |-> node_words(e.nodes[i])])
        \o <<Uc(Len(e.learned_rules))>>
        \o Flatten([i \in 1 .. Len(e.learned_rules) |-> rule_words(e.learned_rules[i])])
        \o <<Uc(e.mwso.dim)>>
        \o MapSeq(VecToSeq(e.mwso.psi_real), Wv)
        \o MapSeq(VecToSeq(e.mwso.psi_imag), Wv)
        \o <<Uc(VecLen(e.mwso.theta))>>
        \o MapSeq(VecToSeq(e.mwso.theta), Wv)

\* intact: the file is all of what a completed save_to_file wrote
MakeFile(words, intact) ==
    [words |-> words, nbytes |-> 4 * Len(words), intact |-> intact]

\* the I/O outcomes of save_to_file: none fails, File::create fails, or the
\* write_all number `after` + 1 fails
NoFault == [kind |-> "none", after |-> 0]
CreateFault == [kind |-> "create", after |-> 0]
WriteFault(n) == [kind |-> "write", after |-> n]

\* Singularity::save_to_file(&self): old is the file at the path before
save_to_file(e, old, fault) ==
    IF fault.kind = "create"
    THEN [e |-> e, out |-> "err", ret |-> "io", file |-> old]
    ELSE IF fault.kind = "write"
    THEN [e |-> e, out |-> "err", ret |-> "io",
          file |-> MakeFile(SubSeq(snapshot_words(e), 1, fault.after), FALSE)]
    ELSE [e |-> e, out |-> "ok", ret |-> <<>>,
          file |-> MakeFile(snapshot_words(e), TRUE)]

\* the file after the first n bytes only are kept
TruncateFile(f, n) ==
    [words |-> SubSeq(f.words, 1, n \div 4), nbytes |-> n, intact |-> FALSE]

\* the file with its first four bytes replaced
CorruptMagic(f) == [f EXCEPT !.words[1] = U(0), !.intact = FALSE]

(* load_from_file keeps a cursor `cur` (in words; every read is 4 bytes    *)
(* from a multiple of 4) and panics on the first read past the buffer.     *)
(* A reader step maps [e, cur, ok] to the next one; once ok is FALSE the   *)
(* call has panicked and nothing further is written.                       *)
Avail(f, st) == Max2(Len(f.words) - st.cur, 0)

\* the 8 scalar reads
RECURSIVE rd_scalars(_, _, _)
rd_scalars(f, st, fields) ==
    IF fields = <<>> \/ ~st.ok THEN st
    ELSE IF Avail(f, st) = 0 THEN [st EXCEPT !.ok = FALSE]
    ELSE rd_scalars(f,
            [st EXCEPT !.e[Head(fields)] = read_f32(f.words[st.cur + 1]),
                       !.cur = @ + 1],
            Tail(fields))

\* `for x in &mut vec { *x = read_f32(&mut cur); }`
rd_vec(f, st, v, conv(_)) ==
    LET n == VecLen(v)
        k == Min2(n, Avail(f, st))
    IN  [ v  |-> [i \in DOMAIN v |->
                     IF i < k THEN conv(f.words[st.cur + 1 + i]) ELSE v[i]],
          cur |-> st.cur + k,
          ok |-> k = n ]

\* a u32 count read at the cursor: [n, cur, ok]
rd_count(f, st) ==
    IF ~st.ok \/ Avail(f, st) = 0 THEN [n |-> 0, cur |-> st.cur, ok |-> FALSE]
    ELSE [n |-> read_u32(f.words[st.cur + 1]), cur |-> st.cur + 1, ok |-> TRUE]

\* n reads of `per` words each, as many as the buffer holds: the items read
rd_items(f, cur, n, per) ==
    LET k == Min2(n, Max2(Len(f.words) - cur, 0) \div per)
    IN  [ items |-> [i \in 1 .. k |->
                        [j \in 1 .. per |-> f.words[cur + (i - 1) * per + j]]],
          \* words consumed, counting the reads of an item cut short
          cur |-> IF k = n THEN cur + n * per ELSE Len(f.words),
          ok  |-> k = n,
          \* words of the item the buffer ends in
          part |-> IF k = n THEN <<>>
                   ELSE SubSeq(f.words, cur + k * per + 1, Len(f.words)) ]

Fail(st) == [st EXCEPT !.ok = FALSE]

ld_scalars(f, st) == rd_scalars(f, st, ScalarFields)

ld_fatigue(f, st) ==
    IF ~st.ok THEN st
    ELSE LET r == rd_vec(f, st, st.e.fatigue_map, read_f32)
         IN  [e |-> [st.e EXCEPT !.fatigue_map = r.v], cur |-> r.cur, ok |-> r.ok]

ld_momentum(f, st) ==
    IF ~st.ok THEN st
    ELSE LET r == rd_vec(f, st, st.e.action_momentum, read_f32)
         IN  [e |-> [st.e EXCEPT !.action_momentum = r.v], cur |-> r.cur, ok |-> r.ok]

ld_gravity(f, st) ==
    IF ~st.ok THEN st
    ELSE LET r == rd_vec(f, st, st.e.mwso.gravity_field, read_f32)
         IN  [e |-> [st.e EXCEPT !.mwso.gravity_field = r.v], cur |-> r.cur, ok |-> r.ok]

\* in_hist_len, input_history.clear(), then in_hist_len push_back(read_u32)
ld_input_history(f, st) ==
    LET c == rd_count(f, st)
        r == rd_items(f, c.cur, c.n, 1)
    IN  IF ~st.ok THEN st
        ELSE IF ~c.ok THEN Fail(st)
        ELSE [e |-> [st.e EXCEPT !.input_history =
                        [i \in 1 .. Len(r.items) |-> read_u32(r.items[i][1])]],
              cur |-> r.cur, ok |-> r.ok]

\* a loader that does not consume the category block
ld_categories_skipped(f, st) == st

\* cat_len, then cat_len words read and dropped
ld_categories(f, st) ==
    LET c == rd_count(f, st)
        r == rd_items(f, c.cur, c.n, 1)
    IN  IF ~st.ok THEN st
        ELSE IF ~c.ok THEN Fail(st)
        ELSE [e |-> st.e, cur |-> r.cur, ok |-> r.ok]

\* nodes_len, then (state, base_decay) per node; nodes past the engine's own
\* are read and dropped
ld_nodes(f, st) ==
    LET c == rd_count(f, st)
        r == rd_items(f, c.cur, c.n, 2)
        k == Len(r.items)
    IN  IF ~st.ok THEN st
        ELSE IF ~c.ok THEN Fail(st)
        ELSE [e |-> [st.e EXCEPT !.nodes =
                        [i \in DOMAIN st.e.nodes |->
                            IF i <= k
                            THEN [st.e.nodes[i] EXCEPT
                                    !.state = read_f32(r.items[i][1]),
                                    !.base_decay = read_f32(r.items[i][2])]
                            ELSE IF i = k + 1 /\ r.part # <<>>
                            THEN [st.e.nodes[i] EXCEPT
                                    !.state = read_f32(r.part[1])]
                            ELSE st.e.nodes[i]]],
              cur |-> r.cur, ok |-> r.ok]

\* rules_len, learned_rules.clear(), then rules_len pushes of (s, a, c)
ld_learned_rules(f, st) ==
    LET c == rd_count(f, st)
        r == rd_items(f, c.cur, c.n, 3)
    IN  IF ~st.ok THEN st
        ELSE IF ~c.ok THEN Fail(st)
        ELSE [e |-> [st.e EXCEPT !.learned_rules =
                        [i \in 1 .. Len(r.items) |->
                            <<read_u32(r.items[i][1]), read_u32(r.items[i][2]),
                              read_u32(r.items[i][3])>>]],
              cur |-> r.cur, ok |-> r.ok]

\* theta_len, then theta_len reads, stored while i < theta.len()
ld_theta(f, st) ==
    LET c == rd_count(f, st)
        r == rd_items(f, c.cur, c.n, 1)
    IN  IF ~st.ok THEN st
        ELSE IF ~c.ok THEN Fail(st)
        ELSE [e |-> [st.e EXCEPT !.mwso.theta =
                        [i \in DOMAIN st.e.mwso.theta |->
                            IF i < Len(r.items) THEN read_wave(r.items[i + 1][1])
                            ELSE st.e.mwso.theta[i]]],
              cur |-> r.cur, ok |-> r.ok]

\* mwso_dim; psi_real, psi_imag and theta are read only if it is the engine's
ld_wave(f, st) ==
    LET c  == rd_count(f, st)
        s0 == [e |-> st.e, cur |-> c.cur, ok |-> TRUE]
        re == rd_vec(f, s0, st.e.mwso.psi_real, read_wave)
        s1 == [e |-> [st.e EXCEPT !.mwso.psi_real = re.v], cur |-> re.cur,
               ok |-> re.ok]
        im == rd_vec(f, s1, st.e.mwso.psi_imag, read_wave)
        s2 == [e |-> [s1.e EXCEPT !.mwso.psi_imag = im.v], cur |-> im.cur,
               ok |-> im.ok]
    IN  IF ~st.ok THEN st
        ELSE IF ~c.ok THEN Fail(st)
        ELSE IF c.n # st.e.mwso.dim THEN s0
        ELSE IF ~s1.ok THEN s1
        ELSE ld_theta(f, s2)

\* the field blocks of load_from_file after the state_size check, in order
ld_body(f, e) ==
    ld_wave(f,
     ld_learned_rules(f,
      ld_nodes(f,
       ld_categories(f,
        ld_input_history(f,
         ld_gravity(f,
          ld_momentum(f,
           ld_fatigue(f,
            ld_scalars(f, [e |-> e, cur |-> 3, ok |-> TRUE])))))))))

\* a loader without the state_size check
state_size_unchecked(e, stored) == TRUE

\* the check of the stored state_size against the engine's
state_size_matches(e, stored) == stored = e.state_size

\* Singularity::load_from_file on the bytes of an opened file
\* load_from_file from `buf` on: f is the content read from the file
load_buffer(e, f) ==
    LET finish(st) ==
            IF ~st.ok THEN Panic(st.e)
            ELSE Ok(reshape_topology(
                       [st.e EXCEPT !.last_topology_update_temp = -1000]),
                    <<>>)
    IN  \* &buf[0..4]
        IF f.nbytes < 4 THEN Panic(e)
        ELSE IF f.words[1] # U(MagicU32) THEN Err(e, "InvalidMagic")
        \* _version, saved_state_size
        ELSE IF Len(f.words) < 3 THEN Panic(e)
        ELSE IF ~state_size_matches(e, read_u32(f.words[3]))
        THEN Err(e, "StateSizeMismatch")
        ELSE finish(ld_body(f, e))

\* a loader that resets the topology stamp before it opens the file
load_resetting_first(e, d) ==
    IF d = NoFile THEN Err([e EXCEPT !.last_topology_update_temp = -1000], "io")
    ELSE load_buffer(e, d)

\* Singularity::load_from_file: File::open(path)? comes first
load_from_file(e, d) ==
    IF d = NoFile THEN Err(e, "io") ELSE load_buffer(e, d)

----------------------------------------------------------------------------
(* The calls a host makes, as actions *)

\* the instance can be called: no earlier call on it panicked
Alive == op.out # "panic"

Shape(state_size, category_sizes) ==
    [state_size |-> state_size, category_sizes |-> category_sizes]

\* constructible shapes explored by Spec
Shapes == {Shape(1, <<2>>), Shape(1, <<1, 1>>)}
\* rewards given to learn: strong failure, mild success, strong success
Rewards == {-1000, 500, 2500}
\* action lists shown to observe_expert
ExpertActions == {<<0>>, <<1>>, <<0, 1>>}
\* active condition sets given to set_active_conditions
ConditionSets == {{}, {0}}

\* the lists of winners from category k on, each from get_best_in_range
RECURSIVE WinnersFrom(_, _)
WinnersFrom(e, k) ==
    IF k > Len(e.category_sizes) THEN {<<>>}
    ELSE {<<b>> \o rest :
            b \in get_best_in_range(e, Offset(e.category_sizes, k),
                                    e.category_sizes[k]),
            rest \in WinnersFrom(e, k + 1)}

Winners(e) == WinnersFrom(e, 1)

\* select_actions: the winners after last_state_idx = state_idx; a call that
\* panics on the penalty row or on dim / action_size scores nothing
Scored(e, state_idx) ==
    IF \/ (state_idx + 1) * e.mwso.dim > VecLen(e.penalty_matrix)
       \/ e.action_size = 0
    THEN {[k \in 1 .. Len(e.category_sizes) |-> 0]}
    ELSE Winners([e EXCEPT !.last_state_idx = state_idx])

NewOp(name, arg, r) ==
    [name |-> name, arg |-> arg, out |-> r.out, ret |-> r.ret, prev |-> op.name]

InitWith(shapes) ==
    /\ \E sh \in shapes :
          eng = Singularity_new(sh.state_size, sh.category_sizes)
    /\ disk = NoFile
    /\ saved = NoFile
    /\ op = [name |-> "new", arg |-> <<>>, out |-> "ok", ret |-> <<>>,
             prev |-> "none"]
    /\ calls = 0
    /\ engines = 1
    /\ pushed = <<>>
    /\ inputs = <<>>
    /\ credit = {}
    /\ before = eng

\* Singularity::new on a fresh instance, which has no call before it; the
\* file on disk stays
Construct(sh) ==
    /\ eng' = Singularity_new(sh.state_size, sh.category_sizes)
    /\ op' = [name |-> "new", arg |-> <<>>, out |-> "ok", ret |-> <<>>,
              prev |-> "none"]
    /\ calls' = 0
    /\ engines' = engines + 1
    /\ pushed' = <<>>
    /\ inputs' = <<>>
    /\ credit' = {}
    /\ before' = eng'
    /\ UNCHANGED <<disk, saved>>

\* a call on the instance: r is its outcome
Call(name, arg, r) ==
    /\ Alive
    /\ eng' = r.e
    /\ op' = NewOp(name, arg, r)
    /\ calls' = calls + 1
    /\ before' = eng

SelectActions(state_idx) ==
    \E best \in Scored(eng, state_idx) :
        LET done(r) ==
              /\ Call("select_actions", state_idx, r)
              /\ pushed' = IF r.out = "ok"
                           THEN Append(pushed, r.e.history[Len(r.e.history)])
                           ELSE pushed
              /\ inputs' = IF r.out = "ok" THEN Append(inputs, state_idx)
                           ELSE inputs
              /\ UNCHANGED <<disk, saved, engines, credit>>
        IN  done(select_actions(eng, state_idx, best, calls + 1))

Learn(reward) ==
    LET done(r) ==
          /\ Call("learn", reward, r)
          /\ credit' = credit \cup
                         {<<r.ret[i].id, calls + 1>> : i \in DOMAIN r.ret}
          /\ pushed' = IF r.out = "ok" THEN <<>> ELSE pushed
          /\ UNCHANGED <<disk, saved, engines, inputs>>
    IN  done(learn(eng, reward))

ObserveExpert(state_idx, expert_actions, strength) ==
    LET done(r) ==
          /\ Call("observe_expert", <<state_idx, expert_actions, strength>>, r)
          /\ inputs' = IF r.out = "ok" THEN Append(inputs, state_idx)
                       ELSE inputs
          /\ UNCHANGED <<disk, saved, engines, pushed, credit>>
    IN  done(observe_expert(eng, state_idx, expert_actions, strength))

SetActiveConditions(conditions) ==
    /\ conditions # eng.active_conditions
    /\ Call("set_active_conditions", conditions,
            Ok(set_active_conditions(eng, conditions), <<>>))
    /\ UNCHANGED <<disk, saved, engines, pushed, inputs, credit>>

\* save_to_file at the path; fault is the I/O outcome
Save(fault) ==
    LET done(r) ==
          /\ Alive
          /\ eng' = r.e
          /\ op' = NewOp("save_to_file", fault.kind, r)
          /\ before' = eng
          /\ disk' = r.file
          /\ saved' = IF fault.kind = "create" THEN saved ELSE eng
          /\ UNCHANGED <<calls, engines, pushed, inputs, credit>>
    IN  done(save_to_file(eng, disk, fault))

\* load_from_file at the path
Load ==
    LET done(r) ==
          /\ Alive
          /\ eng' = r.e
          /\ op' = NewOp("load_from_file", disk, r)
          /\ before' = eng
          /\ inputs' = r.e.input_history
          /\ UNCHANGED <<disk, saved, calls, engines, pushed, credit>>
    IN  done(load_from_file(eng, disk))

\* byte lengths a complete snapshot is cut to: inside the magic, after the
\* version, after the first scalar, in the middle, inside the last word
CutPoints(f) ==
    IF f = NoFile THEN {}
    ELSE {2, 8, 16, 4 * (Len(f.words) \div 2), f.nbytes - 2}

\* the file is cut short by something other than the engine
Truncate(n) ==
    /\ disk # NoFile
    /\ disk.intact
    /\ n < disk.nbytes
    /\ disk' = TruncateFile(disk, n)
    /\ UNCHANGED <<eng, saved, op, calls, engines, pushed, inputs, credit, before>>

\* the magic of the file is overwritten by something other than the engine
Corrupt ==
    /\ disk # NoFile
    /\ disk.intact
    /\ disk' = CorruptMagic(disk)
    /\ UNCHANGED <<eng, saved, op, calls, engines, pushed, inputs, credit, before>>

Init == InitWith(Shapes)

\* the instance may be called again in Spec
MoreCalls == calls < MaxCalls

Next ==
    \/ MoreCalls /\ \E s \in 0 .. eng.state_size : SelectActions(s)
    \/ MoreCalls /\ \E r \in Rewards : Learn(r)
    \/ MoreCalls /\ \E a \in ExpertActions : ObserveExpert(0, a, Milli)
    \/ MoreCalls /\ \E c \in ConditionSets : SetActiveConditions(c)

Spec == Init /\ [][Next]_vars

----------------------------------------------------------------------------
(* Properties of select_actions, learn and observe_expert, under Spec.      *)

\* C6: select_actions and learn never panic, whatever the argument; a state
\* index >= state_size still yields an action list.
C6_Total ==
    op.name \in {"select_actions", "learn"} => op.out = "ok"

Selected == op.name = "select_actions" /\ op.arg < before.state_size

\* C7: for a state < state_size, select_actions returns one entry per
\* category, the k-th in [0, category_sizes[k]), and records
\* last_actions[k] = offset of category k + result[k], every recorded index
\* being < action_size.
C7_OnePerCategory ==
    Selected =>
        /\ op.out = "ok"
        /\ Len(op.ret) = Len(eng.category_sizes)
        /\ \A k \in DOMAIN eng.category_sizes :
              /\ op.ret[k] \in 0 .. eng.category_sizes[k] - 1
              /\ eng.last_actions[k] = Offset(eng.category_sizes, k) + op.ret[k]
        /\ \A j \in DOMAIN eng.last_actions :
              eng.last_actions[j] < eng.action_size

\* C9: a learn that returns leaves the history empty, and no pushed
\* Experience is adapted by two different learn calls.
C9_CreditedOnce ==
    /\ (op.name = "learn" /\ op.out = "ok") => eng.history = <<>>
    /\ \A p \in credit : \A q \in credit : p[1] = q[1] => p[2] = q[2]

\* a learn has returned after an earlier learn had adapted an Experience
C9_Witness ==
    /\ op.name = "learn"
    /\ op.out = "ok"
    /\ eng.history = <<>>
    /\ \E p \in credit : p[2] < calls

\* C10: a learn issued right after observe_expert(state, actions, strength)
\* passes the pair (state, actions) to the substrate adapt step, as it does
\* for an Experience pushed by select_actions.
C10_ExpertCredited ==
    (op.name = "learn" /\ op.out = "ok" /\ op.prev = "observe_expert")
        => \E i \in DOMAIN op.ret :
              /\ op.ret[i].state_idx = before.last_state_idx
              /\ op.ret[i].actions = before.last_actions

----------------------------------------------------------------------------
(* Long runs: one instance, select_actions on state indices in rotation,    *)
(* observe_expert among the first MaxObserved calls (its state index is    *)
(* the call number, so every observation is distinguishable), and learn     *)
(* once the history is full.                                                *)

HistoryShapes == {Shape(2, <<1>>)}

InitHistory == InitWith(HistoryShapes)

NextHistory ==
    \/ /\ calls < MaxRun
       /\ SelectActions(calls % eng.state_size)
    \/ /\ calls < MaxObserved
       /\ ObserveExpert(calls, <<0>>, Milli)
    \/ /\ calls < MaxRun
       /\ Len(eng.history) = eng.max_history
       /\ Learn(500)

SpecHistory == InitHistory /\ [][NextHistory]_vars

\* the last n entries of q, in order
LastN(q, n) == SubSeq(q, Max2(1, Len(q) - n + 1), Len(q))

\* C8: input_history holds at most 4 state indices and history at most 15
\* entries, and what they hold are the most recent pushes in call order.
C8_BoundedHistories ==
    Alive =>
        /\ Len(eng.input_history) <= InputHistoryCap
        /\ Len(eng.history) <= MaxHistory
        /\ eng.input_history = LastN(inputs, InputHistoryCap)
        /\ eng.history = LastN(pushed, MaxHistory)

\* both queues are full and each has evicted at least one entry
C8_Witness ==
    /\ Alive
    /\ Len(eng.history) = MaxHistory
    /\ Len(pushed) > MaxHistory
    /\ Len(eng.input_history) = InputHistoryCap
    /\ Len(inputs) > InputHistoryCap

----------------------------------------------------------------------------
(* Snapshots: an instance is used for up to MaxWarmup calls and saved once  *)
(* (the save may fail); the file is possibly damaged, and loaded by that    *)
(* instance or by a new one, constructed once there is a file to load.      *)

\* one state with 512 bins, two states with 512 bins, one state with 1024 bins
PersistShapes ==
    {Shape(1, <<2>>), Shape(2, <<2>>), Shape(1, <<1, 1, 1, 1, 1, 1, 1, 1, 1>>)}

SaveFaults == {NoFault, CreateFault, WriteFault(4)}

InitPersist == InitWith(PersistShapes)

NextPersist ==
    \/ /\ engines = 1
       /\ disk = NoFile
       /\ calls < MaxWarmup
       /\ \/ SelectActions(0)
          \/ Learn(2500)
          \/ ObserveExpert(0, <<0>>, Milli)
    \/ /\ op.name \notin {"save_to_file", "load_from_file"}
       /\ disk = NoFile
       /\ \E fault \in SaveFaults : Save(fault)
    \/ /\ op.name # "load_from_file"
       /\ Load
    \/ \E n \in CutPoints(disk) : Truncate(n)
    \/ Corrupt
    \/ /\ engines < MaxEngines
       /\ disk # NoFile
       /\ op.name # "new"
       /\ \E sh \in PersistShapes : Construct(sh)

SpecPersist == InitPersist /\ [][NextPersist]_vars

----------------------------------------------------------------------------
(* Properties of load_from_file and save_to_file, under SpecPersist.  In a  *)
(* state where op.name = "load_from_file", op.arg is the file that was      *)
(* loaded, `saved` the engine that wrote it, `before` the loading engine as *)
(* it was and `eng` as it is.                                               *)

Loaded == op.name = "load_from_file"
\* the file loaded exists and starts with magic, version and state_size
HasHeader(f) == f # NoFile /\ Len(f.words) >= 3 /\ f.words[1] = U(MagicU32)
StoredStateSize(f) == read_u32(f.words[3])
\* the file loaded is a complete snapshot
LoadedSnapshot == Loaded /\ op.arg # NoFile /\ op.arg.intact
\* the call returned an error value and the engine is as it was
Rejected == op.out = "err" /\ eng = before

\* C1: a load of a snapshot whose stored state_size differs from the
\* engine's returns an error and leaves every field of the engine as it was.
C1_StateSizeGuard ==
    (Loaded /\ HasHeader(op.arg)
        /\ StoredStateSize(op.arg) # before.state_size) => Rejected

\* such a load happened, of a snapshot whose temperature is not the engine's
C1_Witness ==
    /\ LoadedSnapshot
    /\ StoredStateSize(op.arg) # before.state_size
    /\ saved.system_temperature # before.system_temperature
    /\ Rejected

\* C2: a load of a malformed snapshot (wrong magic, or a snapshot cut short
\* at any byte position) returns an error and leaves the engine as it was.
C2_MalformedRejected ==
    (Loaded /\ op.arg # NoFile /\ ~op.arg.intact) => Rejected

\* C3: a load of a snapshot with the engine's state_size but another
\* substrate dimension returns an error and leaves the engine as it was.
C3_DimensionGuard ==
    (LoadedSnapshot /\ saved.state_size = before.state_size
        /\ saved.mwso.dim # before.mwso.dim) => Rejected

\* the fields the snapshot carries back
SameSnapshotFields(a, b) ==
    /\ \A i \in DOMAIN ScalarFields : a[ScalarFields[i]] = b[ScalarFields[i]]
    /\ a.fatigue_map = b.fatigue_map
    /\ a.action_momentum = b.action_momentum
    /\ a.mwso.gravity_field = b.mwso.gravity_field
    /\ a.input_history = b.input_history
    /\ a.learned_rules = b.learned_rules
    /\ a.mwso.psi_real = b.mwso.psi_real
    /\ a.mwso.psi_imag = b.mwso.psi_imag
    /\ a.mwso.theta = b.mwso.theta

\* the loading engine was freshly constructed with the shape of the saved one
FreshSameShape ==
    before = Singularity_new(saved.state_size, saved.category_sizes)

\* C4: a complete snapshot loaded into a freshly constructed engine of the
\* saved engine's shape returns Ok and yields the saved engine's scalars,
\* fatigue_map, action_momentum, gravity_field, input_history,
\* learned_rules, psi_real, psi_imag and theta.
C4_RoundTrip ==
    (LoadedSnapshot /\ FreshSameShape)
        => (op.out = "ok" /\ SameSnapshotFields(eng, saved))

\* such a round trip happened, of an engine that had learned a rule, seen
\* an input and moved its substrate away from the constructed one
C4_Witness ==
    /\ LoadedSnapshot
    /\ FreshSameShape
    /\ op.out = "ok"
    /\ saved.learned_rules # <<>>
    /\ saved.input_history # <<>>
    /\ saved.mwso.psi_real # before.mwso.psi_real
    /\ saved.system_temperature # before.system_temperature

\* C5: save_to_file modifies no engine field whether it succeeds or fails,
\* and a load from a path that cannot be opened returns an error without
\* having modified any engine field.
C5_IOFailureFrame ==
    /\ op.name = "save_to_file" => eng = before
    /\ (Loaded /\ op.arg = NoFile) => Rejected

\* a load from a missing path happened on an engine that had been used
C5_Witness ==
    /\ Loaded
    /\ op.arg = NoFile
    /\ op.out = "err"
    /\ calls > 0

----------------------------------------------------------------------------
(* Guided and autonomous learning: one instance on which conditions are     *)
(* set and cleared between select_actions and learn.                        *)

GuidedShapes == {Shape(1, <<2>>)}
\* rewards given to learn: strong failure, strong success
GuidedRewards == {-1000, 2500}

InitGuided == InitWith(GuidedShapes)

NextGuided ==
    \/ /\ calls < MaxGuided
       /\ \E c \in ConditionSets : SetActiveConditions(c)
    \/ /\ calls < MaxGuided
       /\ SelectActions(0)
    \/ /\ calls < MaxGuided
       /\ \E r \in GuidedRewards : Learn(r)

SpecGuided == InitGuided /\ [][NextGuided]_vars

\* C11: learn creates or increments a learned rule, or raises or halves
\* penalty_matrix entries, for a history entry only if no condition was
\* active when that entry was selected, whatever was set or cleared since.
C11_RuleEligibleAtSelection ==
    (op.name = "learn" /\ op.out = "ok")
        => \A i \in DOMAIN op.ret :
              op.ret[i].rule # "none" => op.ret[i].cond = {}

----------------------------------------------------------------------------
(* Bootstrapped knowledge: rules are added through the public bootstrapper
   field (bootstrapNative in src/src/lib.rs) before the engine is driven. *)

\* bootstrap rules per engine in SpecKnowledge
MaxRules == 2
\* engine calls per instance in SpecKnowledge, rule additions included
MaxKnown == 4

KnowledgeShapes == {Shape(1, <<2>>), Shape(1, <<2, 2>>)}
\* (condition_id, target_action, strength): exclusions, a mild bias, a
\* cancelling pair, a rule on a condition that is never active and one whose
\* target is beyond every action
KnowledgeRules == {<<7, 1, -1000>>, <<7, 1, 1000>>, <<7, 0, -500>>,
                   <<3, 0, 1000>>, <<7, 5, -1000>>}
KnowledgeConditions == {{}, {7}}

InitKnowledge == InitWith(KnowledgeShapes)

\* bootstrapNative: singularity.bootstrapper.add_hamiltonian_rule(..)
Bootstrap(rule) ==
    /\ Call("add_hamiltonian_rule", rule,
            Ok([eng EXCEPT !.rules = add_hamiltonian_rule(@, rule[1], rule[2],
                                                          rule[3])], <<>>))
    /\ UNCHANGED <<disk, saved, engines, pushed, inputs, credit>>

NextKnowledge ==
    \/ /\ op.name \in {"new", "add_hamiltonian_rule"}
       /\ Len(eng.rules) < MaxRules
       /\ \E rule \in KnowledgeRules : Bootstrap(rule)
    \/ /\ calls < MaxKnown
       /\ \E c \in KnowledgeConditions : SetActiveConditions(c)
    \/ /\ calls < MaxKnown /\ SelectActions(0)

SpecKnowledge == InitKnowledge /\ [][NextKnowledge]_vars

\* the rules whose condition is active and whose target is action a
Firing(a) ==
    {i \in DOMAIN eng.rules :
        /\ eng.rules[i].condition_id \in eng.active_conditions
        /\ eng.rules[i].target_action = a}

\* the resonance field of the engine's rules and active conditions
Resonance ==
    calculate_resonance_field(eng.rules, eng.active_conditions,
                              eng.action_size)

\* C12: calculate_resonance_field returns one entry per action; the entry of
\* action a is None iff no rule with an active condition targets a, and
\* otherwise Some of the sum of the strengths of those rules (so a firing set
\* that sums to 0 gives Some(0)); rules targeting an index at or beyond
\* action_size change nothing.
C12_ResonanceField ==
    /\ DOMAIN Resonance = 0 .. eng.action_size - 1
    /\ \A a \in 0 .. eng.action_size - 1 :
          /\ Resonance[a] = NoneF <=> Firing(a) = {}
          /\ Firing(a) # {} =>
                Resonance[a] =
                    Some(SeqSum([i \in 1 .. Len(eng.rules) |->
                                    IF i \in Firing(a)
                                    THEN eng.rules[i].strength ELSE 0]))

\* select_actions ran with two firing rules cancelling to Some(0) on one
\* action while another action has no firing rule
C12_Witness ==
    /\ op.name = "select_actions" /\ op.out = "ok"
    /\ \E a, b \in 0 .. eng.action_size - 1 :
          /\ Cardinality(Firing(a)) = 2
          /\ Resonance[a] = Some(0)
          /\ Resonance[b] = NoneF

\* C19: an action whose aggregated active strength is below -0.9 is never
\* returned by select_actions for its category when the category has an
\* action without negative knowledge (no negative active sum and no negative
\* rule on the current state).
C19_NearHardExclusion ==
    (op.name = "select_actions" /\ op.out = "ok") =>
        \A k \in DOMAIN eng.category_sizes :
            LET offset == Offset(eng.category_sizes, k)
                clean(i) ==
                    /\ unwrap_or(Resonance[offset + i], 0) >= 0
                    /\ \A n \in DOMAIN eng.rules :
                          (/\ eng.rules[n].condition_id = eng.last_state_idx
                           /\ eng.rules[n].target_action = offset + i)
                             => eng.rules[n].strength >= 0
            IN  (\E i \in 0 .. eng.category_sizes[k] - 1 : clean(i))
                  => unwrap_or(Resonance[offset + op.ret[k]], 0) >= -900

----------------------------------------------------------------------------
(* The node network driven from outside: update_all_nodes and
   set_neuron_state next to the decision cycle. *)

\* engine calls per instance in SpecNodes
MaxNodeCalls == 3

NodeShapes == {Shape(1, <<2>>)}
NodeRewards == {-1000, 2500}
\* (input_signals, urgency) given to update_all_nodes
NodeSignals == {<<<<1000>>, 500>>, <<<<5000, -5000, 0, 0, 700>>, 0>>}
\* (idx, state) given to set_neuron_state
NeuronStates == {<<0, NaN>>, <<0, 1500>>, <<1, -500>>, <<4, 500>>}

InitNodes == InitWith(NodeShapes)

UpdateAllNodes(input_signals, urgency) ==
    /\ Call("update_all_nodes", <<input_signals, urgency>>,
            Ok(update_all_nodes(eng, input_signals, urgency), <<>>))
    /\ UNCHANGED <<disk, saved, engines, pushed, inputs, credit>>

SetNeuronState(idx, state) ==
    /\ Call("set_neuron_state", <<idx, state>>,
            Ok(set_neuron_state(eng, idx, state), <<>>))
    /\ UNCHANGED <<disk, saved, engines, pushed, inputs, credit>>

\* no node holds a NaN; what a NaN state does to later arithmetic is not
\* modelled, so an engine that holds one is not driven further
Finite == \A i \in DOMAIN eng.nodes : eng.nodes[i].state # NaN

MoreNodeCalls == calls < MaxNodeCalls /\ Finite

NextNodes ==
    \/ MoreNodeCalls /\ SelectActions(0)
    \/ MoreNodeCalls /\ \E r \in NodeRewards : Learn(r)
    \/ MoreNodeCalls /\ ObserveExpert(0, <<0>>, Milli)
    \/ MoreNodeCalls /\ \E s \in NodeSignals : UpdateAllNodes(s[1], s[2])
    \/ MoreNodeCalls /\ \E s \in NeuronStates : SetNeuronState(s[1], s[2])

SpecNodes == InitNodes /\ [][NextNodes]_vars

\* C13: at the return of select_actions, learn, observe_expert and
\* update_all_nodes, when the call changed psi_real or psi_imag, the last
\* write of psi was the renormalization at the end of step_core.
C13_NormalizedAtReturn ==
    (/\ op.name \in {"select_actions", "learn", "observe_expert",
                      "update_all_nodes"}
     /\ op.out = "ok"
     /\ \/ eng.mwso.psi_real # before.mwso.psi_real
        \/ eng.mwso.psi_imag # before.mwso.psi_imag)
        => eng.mwso.normalized

\* C17: the engine has exactly four nodes, each with a state in [0, 1];
\* set_neuron_state with an index of 4 or more changes nothing, and with a
\* valid index stores the value clamped to [0, 1] in that node only.
C17_NodeStatesInRange ==
    /\ Len(eng.nodes) = 4
    /\ \A i \in DOMAIN eng.nodes :
          eng.nodes[i].state >= 0 /\ eng.nodes[i].state <= Milli
    /\ op.name = "set_neuron_state" =>
          IF op.arg[1] >= 4 THEN eng = before
          ELSE /\ op.arg[2] >= 0 /\ op.arg[2] <= Milli
                  => eng.nodes[op.arg[1] + 1].state = op.arg[2]
               /\ op.arg[2] < 0 => eng.nodes[op.arg[1] + 1].state = 0
               /\ op.arg[2] > Milli => eng.nodes[op.arg[1] + 1].state = Milli
               /\ eng = [before EXCEPT !.nodes[op.arg[1] + 1].state =
                                         eng.nodes[op.arg[1] + 1].state]

----------------------------------------------------------------------------
(* Sizes of the learned structures, under Spec *)

----------------------------------------------------------------------------
(* Temperature, fatigue and topology over select_actions / learn cycles *)

\* engine calls per instance in SpecTuning
MaxTuning == 4

TuningShapes == {Shape(1, <<2>>)}
\* rewards given to learn: heavy and slight failure, faint success, clear win
TuningRewards == {-10000, -100, 50, 2500}

InitTuning == InitWith(TuningShapes)

NextTuning ==
    \/ /\ op.name = "new" /\ SetActiveConditions({0})
    \/ /\ calls < MaxTuning /\ SelectActions(0)
    \/ /\ calls < MaxTuning /\ \E r \in TuningRewards : Learn(r)
    \/ /\ calls < MaxTuning /\ op.name = "learn"
       /\ ObserveExpert(0, <<0>>, Milli)

SpecTuning == InitTuning /\ [][NextTuning]_vars

LearnReturned == op.name = "learn" /\ op.out = "ok"

\* C15: system_temperature stays in [0, 2]; learn with a reward > 1.5 sets it
\* to 0.05, with a reward in (0, 1.5] never raises it and floors it at 0.05,
\* with a reward <= 0 never lowers it and caps it at 2.0; select_actions and
\* observe_expert leave it alone.
C15_TemperatureRange ==
    /\ eng.system_temperature >= 0 /\ eng.system_temperature <= 2 * Milli
    /\ LearnReturned =>
          /\ op.arg > 1500 => eng.system_temperature = 50
          /\ (op.arg > 0 /\ op.arg <= 1500) =>
                /\ eng.system_temperature <= before.system_temperature
                /\ eng.system_temperature >= 50
          /\ op.arg <= 0 =>
                /\ eng.system_temperature >= before.system_temperature
                /\ eng.system_temperature <= 2 * Milli
    /\ op.name \in {"select_actions", "observe_expert"} =>
          eng.system_temperature = before.system_temperature

\* a learn with a reward <= 0 heated the engine up to the cap of 2.0
C15_Witness ==
    /\ LearnReturned /\ op.arg <= 0
    /\ before.system_temperature < 2 * Milli
    /\ before.system_temperature + Abs(op.arg) \div 5 > 2 * Milli
    /\ eng.system_temperature = 2 * Milli

\* the actions of the history entries a learn call processed
Processed == UNION {{op.ret[i].actions[k] : k \in DOMAIN op.ret[i].actions} :
                       i \in DOMAIN op.ret}

\* C16: a learn call multiplies by exactly 0.98 the fatigue of every action
\* that is in no history entry it processed, and changes it in no other
\* way, so that fatigue does not increase and stays >= 0.
C16_FatigueDecay ==
    LearnReturned =>
        \A a \in DOMAIN eng.fatigue_map :
            a \notin Processed =>
                /\ eng.fatigue_map[a] = (before.fatigue_map[a] * 98) \div 100
                /\ eng.fatigue_map[a] <= before.fatigue_map[a]
                /\ eng.fatigue_map[a] >= 0

\* a learn decayed the positive fatigue of an action it did not process
C16_Witness ==
    /\ LearnReturned
    /\ \E a \in DOMAIN eng.fatigue_map :
          /\ a \notin Processed
          /\ before.fatigue_map[a] > 0
          /\ eng.fatigue_map[a] < before.fatigue_map[a]

\* the urgency digest_experience derives from the reward of learn
Urgency == Min2((op.arg + (IF op.arg < 0 THEN Abs(op.arg) ELSE 0)) * 5, Milli)

\* urgency > 0.5 or |system_temperature - last_topology_update_temp| > 0.05,
\* with the temperature as updated by the call
ReshapeCondition ==
    \/ Urgency > 500
    \/ Abs(eng.system_temperature - before.last_topology_update_temp) > 50

Synapses(e) == [i \in DOMAIN e.nodes |-> e.nodes[i].synapses]

\* C18: digest_experience (run by learn) runs reshape_topology iff urgency >
\* 0.5 or the updated temperature is more than 0.05 away from
\* last_topology_update_temp: if not, last_topology_update_temp and every
\* synapse weight are unchanged; if so, last_topology_update_temp equals
\* system_temperature afterwards.
C18_ReshapeCondition ==
    LearnReturned =>
        IF ReshapeCondition
        THEN eng.last_topology_update_temp = eng.system_temperature
        ELSE /\ eng.last_topology_update_temp = before.last_topology_update_temp
             /\ Synapses(eng) = Synapses(before)

\* a learn that did not reshape, after an earlier one that did, with the
\* temperature off the reshaped one
C18_Witness ==
    /\ LearnReturned /\ ~ReshapeCondition
    /\ eng.system_temperature # eng.last_topology_update_temp
    /\ \E i \in DOMAIN eng.nodes : eng.nodes[i].synapses # <<>>

----------------------------------------------------------------------------
(* Rules and penalties written by observe_expert *)

\* engine calls per instance in SpecExpert, rule additions included
MaxExpert == 4

ExpertShapes == {Shape(1, <<2>>)}
\* (expert_actions, strength) shown to observe_expert
Observations == {<<<<0>>, 500>>, <<<<0>>, 1000>>, <<<<0>>, 60000>>,
                 <<<<0, 0>>, 1000>>, <<<<1, 0>>, 1000>>}

InitExpert == InitWith(ExpertShapes)

NextExpert ==
    \/ /\ op.name \in {"new", "add_hamiltonian_rule"}
       /\ Len(eng.rules) < MaxRules
       /\ Bootstrap(<<0, 0, 1000>>)
    \/ /\ calls < MaxExpert /\ eng.history = <<>> /\ SelectActions(0)
    \/ /\ calls < MaxExpert /\ eng.history # <<>> /\ Learn(-1000)
    \/ /\ calls < MaxExpert
       /\ \E o \in Observations : ObserveExpert(0, o[1], o[2])

SpecExpert == InitExpert /\ [][NextExpert]_vars

Observed == op.name = "observe_expert" /\ op.out = "ok"

\* the rules of engine e keyed (condition_id = state, target_action = action)
Keyed(e, state, action) ==
    {i \in DOMAIN e.rules :
        /\ e.rules[i].condition_id = state
        /\ e.rules[i].target_action = action}

First(s) == CHOOSE i \in s : \A j \in s : i <= j

\* whether i is a penalty_matrix index of the (state, action) pair
InPair(e, state, action, i) ==
    LET bin_per_action == e.mwso.dim \div e.action_size
        start == state * e.mwso.dim + action * bin_per_action
    IN  start <= i /\ i < start + bin_per_action

\* the penalty_matrix indices of the (state, action) pair
PairBins(e, state, action) ==
    {i \in DOMAIN e.penalty_matrix : InPair(e, state, action, i)}

\* C20 as stated: after observe_expert(state, actions, strength) with
\* strength > 0.5 every observed action has exactly one rule keyed (state,
\* action), of strength 0.5 * strength if none existed and otherwise the
\* existing strength plus 0.1 * strength capped at 10, and the penalty entries
\* of the pair are halved; with strength <= 0.5 rules and penalty_matrix are
\* unchanged.
C20_ExactlyOneRule ==
    Observed =>
        LET state == op.arg[1]
            actions == op.arg[2]
            strength == op.arg[3]
        IN  IF strength <= 500
            THEN /\ eng.rules = before.rules
                 /\ eng.penalty_matrix = before.penalty_matrix
            ELSE \A k \in DOMAIN actions :
                    LET now == Keyed(eng, state, actions[k])
                        was == Keyed(before, state, actions[k])
                    IN  /\ Cardinality(now) = 1
                        /\ eng.rules[First(now)].strength =
                              IF was = {} THEN strength \div 2
                              ELSE Min2(before.rules[First(was)].strength
                                          + strength \div 10, 10 * Milli)
                        /\ \A i \in PairBins(before, state, actions[k]) :
                              eng.penalty_matrix[i] =
                                  before.penalty_matrix[i] \div 2

\* x raised n times by 0.1 * strength under the cap of 10
RECURSIVE RaisedBy(_, _, _)
RaisedBy(x, strength, n) ==
    IF n = 0 THEN x
    ELSE RaisedBy(Min2(x + strength \div 10, 10 * Milli), strength, n - 1)

\* x halved n times
RECURSIVE HalvedBy(_, _)
HalvedBy(x, n) == IF n = 0 THEN x ELSE HalvedBy(x \div 2, n - 1)

\* the positions of actions that hold action a
Occurrences(actions, a) == {k \in DOMAIN actions : actions[k] = a}

\* C20: observe_expert with strength > 0.5 takes the observed actions in
\* order.  For each occurrence, if no rule keyed (state, action) exists one
\* is appended with strength 0.5 * strength, otherwise the first such rule is
\* set to min(old + 0.1 * strength, 10) and none is added; every other rule
\* is left as it was; each occurrence halves the penalty entries of the
\* (state, action) pair.  With strength <= 0.5 rules and penalty_matrix are
\* unchanged.
C20_ObservedRules ==
    Observed =>
        LET state == op.arg[1]
            actions == op.arg[2]
            strength == op.arg[3]
            seen == {actions[k] : k \in DOMAIN actions}
            fresh == {a \in seen : Keyed(before, state, a) = {}}
            times(a) == Cardinality(Occurrences(actions, a))
            halvings(i) == Cardinality({k \in DOMAIN actions :
                               InPair(before, state, actions[k], i)})
        IN  IF strength <= 500
            THEN /\ eng.rules = before.rules
                 /\ eng.penalty_matrix = before.penalty_matrix
            ELSE /\ Len(eng.rules) = Len(before.rules) + Cardinality(fresh)
                 /\ \A a \in seen :
                       LET now == Keyed(eng, state, a)
                           was == Keyed(before, state, a)
                       IN  IF was = {}
                           THEN /\ Cardinality(now) = 1
                                /\ First(now) > Len(before.rules)
                                /\ eng.rules[First(now)].strength =
                                      RaisedBy(strength \div 2, strength,
                                               times(a) - 1)
                           ELSE /\ now = was
                                /\ eng.rules[First(was)].strength =
                                      RaisedBy(before.rules[First(was)].strength,
                                               strength, times(a))
                 /\ \A i \in DOMAIN before.rules :
                       (\A a \in seen : Keyed(before, state, a) = {}
                                           \/ i # First(Keyed(before, state, a)))
                           => eng.rules[i] = before.rules[i]
                 /\ \A i \in DOMAIN before.penalty_matrix :
                       eng.penalty_matrix[i] =
                           HalvedBy(before.penalty_matrix[i], halvings(i))

\* a repeated observation met its own rule at a strength the cap cuts, and
\* halved a penalty that a failed learn had raised
C20_Witness ==
    /\ Observed /\ op.arg[3] > 500
    /\ \E a \in {op.arg[2][k] : k \in DOMAIN op.arg[2]} :
          /\ Keyed(before, op.arg[1], a) # {}
          /\ before.rules[First(Keyed(before, op.arg[1], a))].strength
                + op.arg[3] \div 10 > 10 * Milli
          /\ eng.rules[First(Keyed(eng, op.arg[1], a))].strength = 10 * Milli
          /\ \E i \in PairBins(before, op.arg[1], a) :
                /\ before.penalty_matrix[i] > 0
                /\ eng.penalty_matrix[i] = before.penalty_matrix[i] \div 2

----------------------------------------------------------------------------
(* Bins read for scoring against bins written for an action, under
   SpecKnowledge (one category and two categories) *)

\* the bins select_actions reads to score global action a: those of its
\* index within its category
ReadBins(e, a) ==
    UNION {score_bins(e.mwso.dim, Offset(e.category_sizes, k),
                      e.category_sizes[k], a - Offset(e.category_sizes, k)) :
              k \in {k \in DOMAIN e.category_sizes :
                        /\ Offset(e.category_sizes, k) <= a
                        /\ a < Offset(e.category_sizes, k)
                                + e.category_sizes[k]}}

\* C21: for every action the bins read to score it in select_actions are the
\* bins action * (dim / action_size) .. + dim / action_size that adapt,
\* align_to_action, the knowledge-penalty injection and the learn-time
\* penalty update write for it, and distinct actions are scored from
\* disjoint bins.
C21_ScoredWhereWritten ==
    (op.name = "select_actions" /\ op.out = "ok") =>
        /\ \A a \in 0 .. eng.action_size - 1 :
              ReadBins(eng, a) = ActionBins(a, eng.mwso.dim, eng.action_size)
        /\ \A a, b \in 0 .. eng.action_size - 1 :
              a # b => ReadBins(eng, a) \cap ReadBins(eng, b) = {}

----------------------------------------------------------------------------
(* last_actions and the empty-history learn, under Spec *)

\* C22: last_actions holds one entry per category, each < action_size, after
\* any sequence of select_actions, learn and observe_expert calls with a
\* non-empty action list; a select_actions (of a state < state_size) or
\* learn that follows an observe_expert does not index out of bounds.
C22_LastActionsShape ==
    /\ Len(eng.last_actions) = Len(eng.category_sizes)
    /\ \A j \in DOMAIN eng.last_actions : eng.last_actions[j] < eng.action_size
    /\ (/\ op.prev = "observe_expert"
        /\ \/ op.name = "learn"
           \/ op.name = "select_actions" /\ op.arg < before.state_size)
          => op.out = "ok"

\* C23: a learn made while the history is empty leaves learned_rules as it
\* was and changes fatigue_map, penalty_matrix and action_momentum by the
\* global decays only (x0.98, x0.995, x0.95 after the x0.2 reset on a reward
\* < -0.5): it raises no action's momentum.
C23_EmptyHistoryLearn ==
    (op.name = "learn" /\ op.out = "ok" /\ before.history = <<>>) =>
        /\ eng.learned_rules = before.learned_rules
        /\ \A i \in DOMAIN eng.fatigue_map :
              eng.fatigue_map[i] = (before.fatigue_map[i] * 98) \div 100
        /\ \A i \in DOMAIN eng.penalty_matrix :
              eng.penalty_matrix[i] = (before.penalty_matrix[i] * 995) \div 1000
        /\ \A i \in DOMAIN eng.action_momentum :
              /\ eng.action_momentum[i] <= before.action_momentum[i]
              /\ eng.action_momentum[i] =
                    ((IF op.arg < -500
                      THEN (before.action_momentum[i] * 2) \div 10
                      ELSE before.action_momentum[i]) * 95) \div 100

\* 0.4, 0.2, 0.1, ...: the strength of the k-th previous state (k from 1)
RECURSIVE Halved(_)
Halved(k) == IF k = 1 THEN 400 ELSE Halved(k - 1) \div 2

\* the inject_state calls of the select_actions that has just returned
Injected == injections(before, op.arg)

----------------------------------------------------------------------------
(* inject_state alone, on the substrate of an engine whose state_size       *)
(* exceeds the substrate dimension.  Only the fields the injection reads    *)
(* are kept: the penalty matrix of such an engine has state_size x dim      *)
(* entries and plays no part in inject_state.                               *)

\* injections made per behaviour in SpecInject
MaxInject == 2

\* Singularity::new, the fields of the instance that inject_state depends on
Substrate_new(state_size, category_sizes) ==
    LET total_action_size == SeqSum(category_sizes)
        required_dim == Max2(next_power_of_two(total_action_size * BinsPerActionUnit),
                             MinDim)
    IN  [ state_size |-> state_size, mwso |-> MWSO_new(required_dim) ]

\* shapes whose state_size exceeds the dimension (512 and 1024)
InjectShapes == {Shape(520, <<2>>), Shape(1030, <<9>>)}

\* state indices the engine accepts: low ones, one for every stride, those
\* around dim, and the last
InjectIndices(e) ==
    {s \in (0 .. 9) \cup {e.mwso.dim - 1, e.mwso.dim, e.mwso.dim + 3,
                          e.state_size - 1} : s < e.state_size}

InitInject ==
    /\ \E sh \in InjectShapes :
          eng = Substrate_new(sh.state_size, sh.category_sizes)
    /\ disk = NoFile
    /\ saved = NoFile
    /\ op = [name |-> "new", arg |-> <<>>, out |-> "ok", ret |-> <<>>,
             prev |-> "none"]
    /\ calls = 0
    /\ engines = 1
    /\ pushed = <<>>
    /\ inputs = <<>>
    /\ credit = {}
    /\ before = eng

\* self.mwso.inject_state(state_idx, strength, ..) as select_actions calls it
Inject(state_idx, strength) ==
    /\ calls < MaxInject
    /\ eng' = [eng EXCEPT !.mwso = inject_state(@, state_idx, strength)]
    /\ op' = [name |-> "inject_state", arg |-> state_idx, out |-> "ok",
              ret |-> <<>>, prev |-> op.name]
    /\ calls' = calls + 1
    /\ before' = eng
    /\ UNCHANGED <<disk, saved, engines, pushed, inputs, credit>>

NextInject ==
    \E s \in InjectIndices(eng) : \E strength \in {Milli, 400} :
        Inject(s, strength)

SpecInject == InitInject /\ [][NextInject]_vars

\* the substrate bins the last call wrote
Written ==
    {b \in 0 .. eng.mwso.dim - 1 :
        \/ eng.mwso.psi_real[b] # before.mwso.psi_real[b]
        \/ eng.mwso.psi_imag[b] # before.mwso.psi_imag[b]}

\* C25: for every state index below state_size and every dimension the
\* constructor produces, inject_state writes exactly the 16 distinct bins
\* (index + i x stride) mod dim, i = 0..15, stride the prime chosen by
\* index mod 10; no valid index is skipped, indices >= dim included.
C25_SixteenBins ==
    op.name = "inject_state" =>
        /\ Cardinality(Written) = 16
        /\ Written = {(op.arg + i * primes[(op.arg % 10) + 1]) % eng.mwso.dim :
                         i \in 0 .. 15}

----------------------------------------------------------------------------
(* The walk of learn: one instance with a single action, select_actions on  *)
(* state indices in rotation, and one learn, made when the history holds    *)
(* one of WalkLengths entries.                                              *)

\* engine calls per behaviour in SpecWalk
MaxWalk == 17

WalkShapes == {Shape(2, <<1>>)}
\* history lengths at which learn is called: short, and full
WalkLengths == {1, 3, 6, MaxHistory}
\* strong failure, mild success, strong success
WalkRewards == {-1000, 500, 2500}

InitWalk == InitWith(WalkShapes)

NextWalk ==
    \/ /\ calls < MaxWalk
       /\ SelectActions(calls % eng.state_size)
    \/ /\ calls < MaxWalk
       /\ credit = {}
       /\ Len(eng.history) \in WalkLengths
       /\ \E r \in WalkRewards : Learn(r)

SpecWalk == InitWalk /\ [][NextWalk]_vars

\* 0.9^k, as k multiplications by 0.9
RECURSIVE Gamma(_)
Gamma(k) == IF k = 0 THEN Milli ELSE (Gamma(k - 1) * 9) \div 10

\* the fatigue of action a once the entries k .. of the walk of the last
\* learn have been applied to the value f
RECURSIVE WalkedFatigue(_, _, _)
WalkedFatigue(a, k, f) ==
    IF k >= Len(before.history) THEN f
    ELSE LET exp == before.history[Len(before.history) - k]
             hit == \E j \in DOMAIN exp.actions : exp.actions[j] = a
         IN  WalkedFatigue(a, k + 1,
                IF ~hit THEN f
                ELSE IF MulM(op.arg, Gamma(k)) < 0
                THEN Min2(f + MulM(200, Gamma(k)), Milli)
                ELSE Max2(f - MulM(300, Gamma(k)), 0))

\* C26: learn walks the history newest to oldest; the entry k places behind
\* the newest gets one adapt call with reward x 0.9^k and its fatigue change
\* is weighted by 0.9^k; with at most 15 entries the cut-off at discount
\* < 0.01 is never reached, so every entry is processed.
C26_LearnWalk ==
    (op.name = "learn" /\ op.out = "ok") =>
        /\ Len(op.ret) = Len(before.history)
        /\ \A k \in 0 .. Len(op.ret) - 1 :
              /\ op.ret[k + 1].id = before.history[Len(before.history) - k].id
              /\ op.ret[k + 1].actions =
                    before.history[Len(before.history) - k].actions
              /\ op.ret[k + 1].discount = Gamma(k)
              /\ op.ret[k + 1].discount >= 10
              /\ op.ret[k + 1].reward = MulM(op.arg, Gamma(k))
        /\ \A a \in DOMAIN eng.fatigue_map :
              eng.fatigue_map[a] =
                (WalkedFatigue(a, 0, before.fatigue_map[a]) * 98) \div 100

\* a learn with a negative reward has walked a full history down to its
\* oldest entry, 14 places behind the newest
C26_Witness ==
    /\ op.name = "learn"
    /\ op.out = "ok"
    /\ op.arg < 0
    /\ Len(before.history) = MaxHistory
    /\ op.ret[MaxHistory].id = before.history[1].id
    /\ op.ret[MaxHistory].discount = Gamma(MaxHistory - 1)
\* the indices the argmax of a category can return when no score carries a
\* clock-derived term
QuietBest(e, offset, size) ==
    LET penalty_field == current_penalty_field(e, e.last_state_idx)
        scores(i) == {collapsed_score(w + score_bias(e, offset, i)) :
                         w \in wave_scores(e, penalty_field, offset, size, i)}
    IN  {i \in 0 .. size - 1 :
            \A j \in (0 .. size - 1) \ {i} :
                \E hi \in scores(i), lo \in scores(j) : hi >= lo}

\* the instance as the scoring of the last select_actions saw it
AtScoring == [before EXCEPT !.last_state_idx = op.arg]

\* C27: with a condition active, select_actions uses no value derived from
\* the wall clock: no exploration noise is written to the wave and every
\* returned index is one the scores without jitter select, so the result is
\* fixed by the state of the instance and the state index.
C27_NoClockUnderGuidance ==
    (/\ op.name = "select_actions"
     /\ op.out = "ok"
     /\ before.active_conditions # {}) =>
        /\ jitters(score_noise(before)) = {0}
        /\ eng.mwso = step_core(inject_flow(before.mwso,
                                            injections(before, op.arg)))
        /\ \A k \in DOMAIN before.category_sizes :
              op.ret[k] \in QuietBest(AtScoring,
                                      Offset(before.category_sizes, k),
                                      before.category_sizes[k])

\* a select_actions under a condition in which the scores rule an index out
C27_Witness ==
    /\ op.name = "select_actions"
    /\ op.out = "ok"
    /\ before.active_conditions # {}
    /\ QuietBest(AtScoring, 0, before.category_sizes[1])
          # 0 .. before.category_sizes[1] - 1

----------------------------------------------------------------------------
(* Snapshots of a stressed engine: one instance whose nodes are driven to   *)
(* full activation before every learn, so that the regulator buffer fills;  *)
(* a strongly negative learn then heats it.  It is saved once and the file  *)
(* is loaded back by the same instance.                                     *)

\* engine calls made before the save in SpecReload
MaxReload == 34

ReloadShapes == {Shape(1, <<1>>)}
\* input_signals that drive every node to 1.0
AllOn == <<Milli, Milli, Milli, Milli>>
\* mild success, which keeps the topology reshaping; strong failure, which
\* raises the temperature to its cap
ReloadRewards == {200, -10000}

InitReload == InitWith(ReloadShapes)

NextReload ==
    \/ /\ calls < MaxReload
       /\ disk = NoFile
       /\ op.name \in {"new", "learn"}
       /\ UpdateAllNodes(AllOn, Milli)
    \/ /\ calls < MaxReload
       /\ disk = NoFile
       /\ op.name = "update_all_nodes"
       /\ eng.system_temperature <= 1500
       /\ \E r \in ReloadRewards : Learn(r)
    \/ /\ disk = NoFile
       /\ op.name # "new"
       /\ Save(NoFault)
    \/ /\ op.name = "save_to_file"
       /\ Load

SpecReload == InitReload /\ [][NextReload]_vars

\* C28: after a successful load of a snapshot saved by an engine of the same
\* shape, every node's state and base_decay are those stored in the
\* snapshot, whatever the saved temperature and regulator buffer are.
C28_NodesAsStored ==
    (op.name = "load_from_file" /\ op.out = "ok") =>
        \A i \in DOMAIN eng.nodes :
            /\ eng.nodes[i].state = saved.nodes[i].state
            /\ eng.nodes[i].base_decay = saved.nodes[i].base_decay

----------------------------------------------------------------------------
(* Horizon::regulate alone: an instance whose regulator buffer is one the   *)
(* engine reaches (0, or the values it holds after 13 and 24 learns with    *)
(* fully active nodes), whose nodes are driven by update_all_nodes, and on  *)
(* which regulate is applied over all nodes at a given temperature.         *)

\* calls made per behaviour in SpecRegulate
MaxRegulate == 3

RegulateShapes == {Shape(1, <<1>>)}
RegulateBuffers == {0, 2161, 3001}
\* input_signals, applied with urgency 1.0: a node at rest takes the value
\* of its signal: total 4.0, total 1.5 with one node above 0.5, and total
\* 1.9 with two nodes above 0.5, one at 0.5 and one below
RegulateSignals == {AllOn, <<400, 400, 0, 700>>, <<800, 500, 0, 600>>}
\* system_temp: below, at and above 1.0
RegulateTemps == {500, Milli, 1001, 2 * Milli}

InitRegulate ==
    /\ \E b \in RegulateBuffers :
          eng = [Singularity_new(1, <<1>>) EXCEPT !.glutamate_buffer = b]
    /\ disk = NoFile
    /\ saved = NoFile
    /\ op = [name |-> "new", arg |-> <<>>, out |-> "ok", ret |-> <<>>,
             prev |-> "none"]
    /\ calls = 0
    /\ engines = 1
    /\ pushed = <<>>
    /\ inputs = <<>>
    /\ credit = {}
    /\ before = eng

\* self.horizon.regulate(system_temp, &all_indices, &mut self.nodes)
Regulate(system_temp) ==
    LET done(r) ==
          /\ Call("regulate", system_temp,
                  Ok([eng EXCEPT !.glutamate_buffer = r.glutamate_buffer,
                                 !.nodes = r.nodes], <<>>))
          /\ UNCHANGED <<disk, saved, engines, pushed, inputs, credit>>
    IN  done(regulate(eng.glutamate_buffer, system_temp, eng.nodes))

NextRegulate ==
    \/ /\ calls < MaxRegulate
       /\ \E sig \in RegulateSignals : UpdateAllNodes(sig, Milli)
    \/ /\ calls < MaxRegulate
       /\ \E temp \in RegulateTemps : Regulate(temp)

SpecRegulate == InitRegulate /\ [][NextRegulate]_vars

\* sum of the node states the last call started from
ActivityBefore ==
    SeqSum([i \in DOMAIN before.nodes |-> before.nodes[i].state])

\* the last regulate met the condition of the homeostatic scaling
Scaling ==
    /\ op.arg > Milli
    /\ \/ ActivityBefore > 1800
       \/ eng.glutamate_buffer > 2 * Milli

\* C29: regulate sets the buffer to (buffer + 0.1 x sum of node states) x
\* 0.92 and then, iff temperature > 1.0 and (sum > 1.8 or the new buffer >
\* 2.0), reduces by 15% exactly the nodes whose state is > 0.5; no other
\* node state changes.  The buffer stays >= 0 and the intervention level
\* in [0, 1].
C29_Regulate ==
    /\ eng.glutamate_buffer >= 0
    /\ get_intervention_level(eng.glutamate_buffer) >= 0
    /\ get_intervention_level(eng.glutamate_buffer) <= Milli
    /\ op.name = "regulate" =>
          /\ eng.glutamate_buffer =
                ((before.glutamate_buffer + ActivityBefore \div 10) * 92)
                    \div 100
          /\ \A i \in DOMAIN eng.nodes :
                eng.nodes[i].state =
                  IF Scaling /\ before.nodes[i].state > 500
                  THEN before.nodes[i].state
                         - (before.nodes[i].state * 15) \div 100
                  ELSE before.nodes[i].state

\* a regulate has scaled some nodes and left others, on the strength of the
\* buffer alone
C29_Witness ==
    /\ op.name = "regulate"
    /\ Scaling
    /\ ActivityBefore <= 1800
    /\ \E i \in DOMAIN eng.nodes : eng.nodes[i].state < before.nodes[i].state
    /\ \E i \in DOMAIN eng.nodes :
          /\ before.nodes[i].state > 0
          /\ eng.nodes[i].state = before.nodes[i].state

----------------------------------------------------------------------------
(* Gravity: one instance with a single action, rewarded over histories of   *)
(* two or three selections, and shown an expert action at the end.          *)

\* engine calls per behaviour in SpecGravity
MaxGravity == 9

GravityShapes == {Shape(1, <<1>>)}
\* strong success, mild success, strong failure
GravityRewards == {2500, 500, -1000}
\* strength given to observe_expert
GravityStrengths == {0, Milli}

InitGravity == InitWith(GravityShapes)

\* no expert action has been shown yet
Unaligned == op.name # "observe_expert"

NextGravity ==
    \/ /\ calls < MaxGravity
       /\ Unaligned
       /\ Len(eng.history) < 3
       /\ SelectActions(0)
    \/ /\ calls < MaxGravity
       /\ Unaligned
       /\ Len(eng.history) \in {2, 3}
       /\ \E r \in GravityRewards : Learn(r)
    \/ /\ calls < MaxGravity
       /\ Unaligned
       /\ \E strength \in GravityStrengths :
             ObserveExpert(0, <<0>>, strength)

SpecGravity == InitGravity /\ [][NextGravity]_vars

\* C30: observe_expert with strength >= 0 (through align_to_action) never
\* lowers the gravity_field value of a bin, whatever value in [0, 1] the
\* bin held, and keeps gravity_field within [0, 1].
C30_GravityNeverLowered ==
    (op.name = "observe_expert" /\ op.out = "ok") =>
        \A b \in DOMAIN eng.mwso.gravity_field :
            /\ eng.mwso.gravity_field[b] >= before.mwso.gravity_field[b]
            /\ eng.mwso.gravity_field[b] >= 0
            /\ eng.mwso.gravity_field[b] <= Milli

============================================================================
